---- MODULE Spec2Model ----
(***************************************************************************)
(* The Snowflake warehouse driver of rudder-server                         *)
(* (warehouse/integrations/snowflake/snowflake.go) as a state machine.     *)
(*                                                                         *)
(* Several specifications share the module:                                *)
(*   SpecMerge   the staging/dedup/merge data path of loadTable            *)
(*   SpecOps     connections, statements and log entries of the load       *)
(*               operations, IsEmpty, Setup and Cleanup                    *)
(*   SpecSchema  CreateSchema, CreateTable, AddColumns and FetchSchema     *)
(*               against the backend catalog                               *)
(*   SpecMappings the staging and merge data path of                       *)
(*               LoadIdentityMappingsTable                                 *)
(*   SpecClassify the classification of an error message over              *)
(*               errorsMappings                                            *)
(* Each specification drives its own group of variables and leaves the     *)
(* other groups at their initial values.                                   *)
(***************************************************************************)
EXTENDS Integers, Sequences, FiniteSets, Bags, TLC

VARIABLES
    \* ---- SpecMerge: one loadTable call against one target table ----
    tableName,      \* the table loadTable is called for
    target,         \* rows of the target table (a bag of rows)
    staging,        \* rows of the temporary staging table, in COPY order
    strKeys,        \* sorted column names of tableSchemaInUpload
    source,         \* rank-1 rows the MERGE statement's USING subquery produced
    before,         \* rows of the target when the MERGE statement started
    keepLatestRecordOnDedup, \* Uploader.ShouldOnDedupUseNewRecord() of this call
    inserted,       \* rows-inserted count scanned from the MERGE result
    updated,        \* rows-updated count scanned from the MERGE result
    dedupRows,      \* the counts this call published to the dedup_rows counter
    mpc,            \* position in loadTable: "idle", "copied", "merged"
    mret            \* what the last loadTable call returned: "none", "nil" or the failed step

VARIABLES
    \* ---- SpecOps: one driver instance, its connections, statements and log ----
    DB,             \* sf.DB, the primary connection handle (0 is nil)
    Uploader,       \* TRUE once Setup has set sf.Uploader
    useTempCreds,   \* authString takes the CREDENTIALS branch (no storage integration)
    conns,          \* every connection opened so far: handle h is conns[h], "open" or "closed"
    last,           \* the last operation: name, returned error, connections it opened
    stmts,          \* the statements the last operation issued, with their connection
    log             \* the log entries the last operation emitted

VARIABLES
    \* ---- SpecSchema: the backend catalog of the namespace and the schema calls ----
    namespaceExists, \* the namespace (schema) exists in the backend
    catalog,        \* INFORMATION_SCHEMA.COLUMNS: table -> column -> raw type and scale
    call,           \* the last schema call: name, arguments, backend answer, returned error
    issued,         \* the statements the last schema call executed
    fetched         \* what the last FetchSchema returned

VARIABLES
    \* ---- SpecMappings: LoadIdentityMappingsTable against the mappings table ----
    mappings,        \* rows of RUDDER_IDENTITY_MAPPINGS (a bag of rows)
    mappingsStaging, \* rows of the staging table of the last call, in COPY order
    mappingsBefore,  \* rows of RUDDER_IDENTITY_MAPPINGS when the last call started
    mappingsRet      \* what the last call returned: "none", "nil" or the failed step

VARIABLES
    \* ---- SpecClassify: one raw error message and its classification ----
    rawMessage,      \* the error message, as a sequence of phrases
    errorKind        \* the kind it was classified to, "none" before that

VARIABLES
    \* ---- SpecLoad: one loadTable call, statement by statement ----
    loadPc,          \* position in loadTable: "idle", "started", ..., "returned"
    loadArgs,        \* the caller and the skipClosingDBSession it passed
    steps,           \* the steps this call issued so far, in order
    dbConn,          \* the call's connection db: "none", "open" or "closed"
    stagingTable,    \* the call's temporary staging table exists
    loadRet          \* the error of the call (NoError until a step fails)

VARIABLES
    \* ---- SpecStats: the uploads table and the processing statistics ----
    uploads,         \* the uploads: destination type, destination, namespace, status
    jobStats,        \* the last statistics call: its arguments and what it computed
    gauges           \* the gauge wh_processing_pending_jobs: destination type and value

VARIABLES
    \* ---- SpecSuppress: one operation and the error its backend answered ----
    answered,        \* the operation, its arguments, the statement and the backend's error
    returned         \* the error the operation returned and the statements it issued

VARIABLES
    \* ---- SpecStaging: the columns of the targets and of the staging tables ----
    tables,          \* target table -> its column set in the backend
    temp             \* staging table -> its column set, for the staging tables created

VARIABLES
    \* ---- SpecUsers: loadUserTables against the users table ----
    usersRows,       \* rows of the users table (a set: one row per ID)
    usersBefore,     \* rows of the users table when the call started
    identifiesStaged, \* rows of the identifies staging table of the call, in COPY order
    usersStaged,     \* rows of the users staging table of the call
    usersPolicy,     \* Uploader.ShouldOnDedupUseNewRecord() during the call
    usersResult,     \* the map the call returned: table -> error
    usersStmts,      \* the statements of the call after the identifies load, with their table
    usersPc          \* "idle" before the call, "returned" after it

VARIABLES
    emptyCall,      \* the call of IsEmpty under way: the namespace it finds and
                    \* whether its connect succeeds; <<>> when there is none
    emptyRet        \* what the call returned: (empty, err); <<>> before it returns

VARIABLES
    buildCall,      \* the loadTable call under way: table, upload schema, dedup policy;
                    \* <<>> when there is none
    buildPc,        \* where it is: "idle", "called", "copied", "built", "returned",
                    \* or "aborted" once the process has panicked
    buildRet        \* what it returned: "none", "nil" or the step that failed

VARIABLES
    warehouseTables, \* what DownloadIdentityRules finds for each of its five tables
    rulesTable,     \* index of the table getFromTable is called for (6 after the last)
    rulesPaging,    \* TRUE inside the paging loop of the table
    rulesOffset,    \* offset of the paging loop
    pageQueries,    \* the page queries issued so far: table index and OFFSET
    rulesErr        \* "none" while the download runs, then "nil" or the error returned

VARIABLES
    enableDeleteByJobs, \* sf.config.enableDeleteByJobs, as New read it
    deleteTables,   \* the tableNames argument of the DeleteBy call under way
    deletePos,      \* index of the table the loop of DeleteBy is at (0 when idle)
    deleted,        \* the DELETE statements executed so far: table and backend answer
    deleteRet       \* "none" while DeleteBy runs, then "nil" or the error returned

mergeVars == <<tableName, target, staging, strKeys, source, before,
               keepLatestRecordOnDedup, inserted, updated, dedupRows, mpc, mret>>

opsVars == <<DB, Uploader, useTempCreds, conns, last, stmts, log>>

schemaVars == <<namespaceExists, catalog, call, issued, fetched>>

mappingsVars == <<mappings, mappingsStaging, mappingsBefore, mappingsRet>>

classifyVars == <<rawMessage, errorKind>>

loadVars == <<loadPc, loadArgs, steps, dbConn, stagingTable, loadRet>>

statsVars == <<uploads, jobStats, gauges>>

suppressVars == <<answered, returned>>

stagingVars == <<tables, temp>>

usersVars ==
    <<usersRows, usersBefore, identifiesStaged, usersStaged, usersPolicy, usersResult,
      usersStmts, usersPc>>

emptyVars == <<emptyCall, emptyRet>>

buildVars == <<buildCall, buildPc, buildRet>>

rulesVars == <<warehouseTables, rulesTable, rulesPaging, rulesOffset, pageQueries, rulesErr>>

deleteVars == <<enableDeleteByJobs, deleteTables, deletePos, deleted, deleteRet>>

vars ==
    <<mergeVars, opsVars, schemaVars, mappingsVars, classifyVars, loadVars, statsVars, suppressVars, stagingVars, usersVars, emptyVars, buildVars, rulesVars, deleteVars>>

\* what the actions of each specification leave alone
otherThanMerge ==
    <<opsVars, schemaVars, mappingsVars, classifyVars, loadVars, statsVars, suppressVars, stagingVars, usersVars, emptyVars, buildVars, rulesVars, deleteVars>>
otherThanOps ==
    <<mergeVars, schemaVars, mappingsVars, classifyVars, loadVars, statsVars, suppressVars, stagingVars, usersVars, emptyVars, buildVars, rulesVars, deleteVars>>
otherThanSchema ==
    <<mergeVars, opsVars, mappingsVars, classifyVars, loadVars, statsVars, suppressVars, stagingVars, usersVars, emptyVars, buildVars, rulesVars, deleteVars>>
otherThanMappings ==
    <<mergeVars, opsVars, schemaVars, classifyVars, loadVars, statsVars, suppressVars, stagingVars, usersVars, emptyVars, buildVars, rulesVars, deleteVars>>
otherThanClassify ==
    <<mergeVars, opsVars, schemaVars, mappingsVars, loadVars, statsVars, suppressVars, stagingVars, usersVars, emptyVars, buildVars, rulesVars, deleteVars>>
otherThanLoad ==
    <<mergeVars, opsVars, schemaVars, mappingsVars, classifyVars, statsVars, suppressVars, stagingVars, usersVars, emptyVars, buildVars, rulesVars, deleteVars>>
otherThanStats ==
    <<mergeVars, opsVars, schemaVars, mappingsVars, classifyVars, loadVars, suppressVars, stagingVars, usersVars, emptyVars, buildVars, rulesVars, deleteVars>>
otherThanSuppress ==
    <<mergeVars, opsVars, schemaVars, mappingsVars, classifyVars, loadVars, statsVars, stagingVars, usersVars, emptyVars, buildVars, rulesVars, deleteVars>>
otherThanStaging ==
    <<mergeVars, opsVars, schemaVars, mappingsVars, classifyVars, loadVars, statsVars, suppressVars, usersVars, emptyVars, buildVars, rulesVars, deleteVars>>
otherThanUsers ==
    <<mergeVars, opsVars, schemaVars, mappingsVars, classifyVars, loadVars, statsVars, suppressVars, stagingVars, emptyVars, buildVars, rulesVars, deleteVars>>
otherThanEmpty ==
    <<mergeVars, opsVars, schemaVars, mappingsVars, classifyVars, loadVars, statsVars, suppressVars, stagingVars, usersVars, buildVars, rulesVars, deleteVars>>
otherThanBuild ==
    <<mergeVars, opsVars, schemaVars, mappingsVars, classifyVars, loadVars, statsVars, suppressVars, stagingVars, usersVars, emptyVars, rulesVars, deleteVars>>
otherThanRules ==
    <<mergeVars, opsVars, schemaVars, mappingsVars, classifyVars, loadVars, statsVars, suppressVars, stagingVars, usersVars, emptyVars, buildVars, deleteVars>>
otherThanDelete ==
    <<mergeVars, opsVars, schemaVars, mappingsVars, classifyVars, loadVars, statsVars, suppressVars, stagingVars, usersVars, emptyVars, buildVars, rulesVars>>

----------------------------------------------------------------------------
(* Bounds and value domains of the merge model *)

\* longest staged batch (rows copied into the staging table by one load)
MaxBatch == 2

NULL == 0

usersTable == "USERS"
identifiesTable == "IDENTIFIES"
discardsTable == "RUDDER_DISCARDS"
tracksTable == "TRACKS"

\* the tables a behaviour may load: one with the default key, and the discards table
LoadTables == {tracksTable, discardsTable}

\* columns of the target tables (the staging table is created LIKE the target)
Columns(t) ==
    IF t = discardsTable
    THEN {"ROW_ID", "TABLE_NAME", "COLUMN_NAME", "RECEIVED_AT"}
    ELSE {"ID", "RECEIVED_AT", "EVENT"}

\* every column name of the model in lexicographic order, as sort.Strings orders them
ColumnOrder == <<"COLUMN_NAME", "EVENT", "ID", "RECEIVED_AT", "ROW_ID", "TABLE_NAME">>

\* non-NULL values a column of a load file can hold
ColumnValues(t, c) ==
    CASE c = "ROW_ID"      -> {1}
      [] c = "TABLE_NAME"  -> {1}
      [] c = "COLUMN_NAME" -> {1, 2}
      [] c = "ID"          -> {1, 2}
      [] c = "RECEIVED_AT" -> {1, 2}
      [] OTHER             -> {1, 2}

\* the upload schemas a batch may come with: every column of the target, or
\* (for an event table) a batch that carries no EVENT column
UploadSchemas(t) ==
    IF t = discardsTable
    THEN {Columns(t)}
    ELSE {Columns(t), Columns(t) \ {"EVENT"}}

----------------------------------------------------------------------------
(* loadTable: keys and column lists *)

primaryKeyMap(t) ==
    CASE t = usersTable      -> "ID"
      [] t = identifiesTable -> "ID"
      [] t = discardsTable   -> "ROW_ID"
      [] OTHER               -> "ID"

partitionKeyMap(t) ==
    CASE t = usersTable      -> {"ID"}
      [] t = identifiesTable -> {"ID"}
      [] t = discardsTable   -> {"ROW_ID", "COLUMN_NAME", "TABLE_NAME"}
      [] OTHER               -> {"ID"}

\* additionalJoinClause: the extra equalities of the ON clause
additionalJoinClause(t) ==
    IF t = discardsTable THEN {"TABLE_NAME", "COLUMN_NAME"} ELSE {}

\* the columns the ON clause of the MERGE compares
JoinColumns(t) == {primaryKeyMap(t)} \cup additionalJoinClause(t)

\* sort.Strings over the column names of the upload schema
SortStrings(S) == SelectSeq(ColumnOrder, LAMBDA c : c \in S)

SeqToSet(s) == {s[i] : i \in DOMAIN s}

\* the rows a load file can hold for an upload schema: COPY INTO fills the listed
\* columns, every other column of the staging table stays NULL
LoadFileRows(t, schema) ==
    {r \in [Columns(t) -> 0..2] :
        \A c \in Columns(t) :
            IF c \in schema THEN r[c] \in ColumnValues(t, c) ELSE r[c] = NULL}

Batches(t, schema) ==
    UNION {[1..n -> LoadFileRows(t, schema)] : n \in 0..MaxBatch}

----------------------------------------------------------------------------
(* The MERGE statement of loadTable *)

SameOn(cols, r, s) == \A c \in cols : r[c] = s[c]

\* the staged rows of the partition of row r
Partition(stg, pkey, r) == {i \in DOMAIN stg : SameOn(pkey, stg[i], r)}

\* (mutant) the ranking ordered by RECEIVED_AT ASC: the earliest row ranks first
CanRankFirstAsc(stg, pkey, i) ==
    \A j \in Partition(stg, pkey, stg[i]) : stg[j]["RECEIVED_AT"] >= stg[i]["RECEIVED_AT"]

\* row_number() OVER (PARTITION BY pkey ORDER BY RECEIVED_AT DESC) can give rank 1
\* to staged row i: no row of its partition has a later RECEIVED_AT
\* (rows with equal RECEIVED_AT are ranked in an order the backend picks)
CanRankFirst(stg, pkey, i) ==
    \A j \in Partition(stg, pkey, stg[i]) : stg[j]["RECEIVED_AT"] <= stg[i]["RECEIVED_AT"]

\* (mutant) the USING subquery without its rank filter: every staged row is a source row
RankOneUnfiltered(stg, pkey) == {{stg[i] : i \in DOMAIN stg}}

\* the results the USING subquery (WHERE _rudder_staging_row_number = 1) can have:
\* one row per partition, each a row that can rank first
RankOne(stg, pkey) ==
    LET parts == {Partition(stg, pkey, stg[i]) : i \in DOMAIN stg}
        picks == {f \in [parts -> DOMAIN stg] :
                    \A p \in parts : f[p] \in p /\ CanRankFirst(stg, pkey, f[p])}
    IN  {{stg[f[p]] : p \in parts} : f \in picks}

\* the target rows the ON clause matches with source row s
Matched(tgt, join, s) == {r \in BagToSet(tgt) : SameOn(join, r, s)}

\* WHEN NOT MATCHED THEN INSERT (sortedColumnNames) VALUES (stagingColumnNames)
InsertedRow(t, keys, s) ==
    [c \in Columns(t) |-> IF c \in SeqToSet(keys) THEN s[c] ELSE NULL]

\* (mutant) the matched branch always overwrites, whatever the policy
UpdatedRowOverwrites(keys, keepLatest, r, s) ==
    [c \in DOMAIN r |-> IF c \in SeqToSet(keys) THEN s[c] ELSE r[c]]

\* (mutant) the matched branch always issues the dummy update, whatever the policy
UpdatedRowDummy(keys, keepLatest, r, s) == r

\* WHEN MATCHED THEN UPDATE SET columnsWithValues (prefer latest), or
\* UPDATE SET dummyColumnWithValues: original.<strKeys[0]> = original.<strKeys[0]>
UpdatedRow(keys, keepLatest, r, s) ==
    IF keepLatest
    THEN [c \in DOMAIN r |-> IF c \in SeqToSet(keys) THEN s[c] ELSE r[c]]
    ELSE [r EXCEPT ![keys[1]] = r[keys[1]]]

RECURSIVE BagOfRows(_)
\* the bag holding one copy of every row of a set of (row, copies) pairs
BagOfRows(pairs) ==
    IF pairs = {} THEN EmptyBag
    ELSE LET p == CHOOSE x \in pairs : TRUE
         IN  [i \in {p[1]} |-> p[2]] (+) BagOfRows(pairs \ {p})

\* MERGE INTO target USING src ON join: the new target and the two counts.
\* A target row matched by two source rows makes the statement fail
\* (nondeterministic merge) and leaves the target as it was.
MergeInto(t, tgt, src, join, keys, keepLatest) ==
    LET tgtRows  == BagToSet(tgt)
        hit(r)   == {s \in src : SameOn(join, r, s)}
        clash    == \E r \in tgtRows : Cardinality(hit(r)) > 1
        kept     == {<<r, CopiesIn(r, tgt)>> : r \in {x \in tgtRows : hit(x) = {}}}
        changed  == {<<r, CHOOSE s \in hit(r) : TRUE>> :
                        r \in {x \in tgtRows : hit(x) # {}}}
        newRows  == {s \in src : Matched(tgt, join, s) = {}}
        RECURSIVE Apply(_), Insert(_), Count(_)
        Apply(cs) == IF cs = {} THEN EmptyBag
                     ELSE LET c == CHOOSE x \in cs : TRUE
                          IN  [i \in {UpdatedRow(keys, keepLatest, c[1], c[2])}
                                  |-> CopiesIn(c[1], tgt)] (+) Apply(cs \ {c})
        Insert(ss) == IF ss = {} THEN EmptyBag
                      ELSE LET s == CHOOSE x \in ss : TRUE
                           IN  [i \in {InsertedRow(t, keys, s)} |-> 1] (+) Insert(ss \ {s})
        Count(cs) == IF cs = {} THEN 0
                     ELSE LET c == CHOOSE x \in cs : TRUE
                          IN  CopiesIn(c[1], tgt) + Count(cs \ {c})
    IN  IF clash
        THEN [err |-> TRUE, target |-> tgt, inserted |-> 0, updated |-> 0]
        ELSE [err |-> FALSE,
              target |-> BagOfRows(kept) (+) Apply(changed) (+) Insert(newRows),
              inserted |-> Cardinality(newRows),
              updated |-> Count(changed)]

----------------------------------------------------------------------------
(* SpecMerge: loadTable, from the COPY into the staging table to the return *)

MergeStart ==
    /\ tableName \in LoadTables
    /\ target = EmptyBag
    /\ staging = <<>>
    /\ strKeys = <<>>
    /\ source = {}
    /\ before = EmptyBag
    /\ keepLatestRecordOnDedup = FALSE
    /\ inserted = 0
    /\ updated = 0
    /\ dedupRows = <<>>
    /\ mpc = "idle"
    /\ mret = "none"

\* loadTable up to the COPY INTO: connect, CREATE TEMPORARY TABLE ... LIKE target,
\* COPY INTO the staging table the rows of the batch's load files
LoadTableCopy ==
    /\ mpc = "idle"
    /\ \E schema \in UploadSchemas(tableName) :
       \E batch \in Batches(tableName, schema) :
          /\ strKeys' = SortStrings(schema)
          /\ staging' = batch
    /\ mpc' = "copied"
    /\ mret' = "none"
    /\ source' = {}
    /\ before' = EmptyBag
    /\ inserted' = 0
    /\ updated' = 0
    /\ dedupRows' = <<>>
    /\ UNCHANGED <<tableName, target, keepLatestRecordOnDedup>>
    /\ UNCHANGED otherThanMerge

\* a step before the MERGE fails (here: create temporary table, copy): loadTable
\* returns the wrapped error and the target is untouched
LoadTableFailEarly ==
    /\ mpc = "idle"
    /\ \E step \in {"create temporary table", "copy into table"} : mret' = step
    /\ staging' = <<>>
    /\ strKeys' = <<>>
    /\ source' = {}
    /\ before' = EmptyBag
    /\ inserted' = 0
    /\ updated' = 0
    /\ dedupRows' = <<>>
    /\ UNCHANGED <<tableName, target, keepLatestRecordOnDedup, mpc>>
    /\ UNCHANGED otherThanMerge

\* the counter publishing the inserted count
DedupRowsInserted(ins, upd) == <<ins>>

\* NewTaggedStat("dedup_rows", ...).Count(int(updated))
DedupRows(ins, upd) == <<upd>>

\* the MERGE statement runs; its two counts are scanned and the updated
\* count is published, unless the statement or the scan fails
LoadTableMerge ==
    /\ mpc = "copied"
    /\ \E keepLatest \in BOOLEAN, scanned \in BOOLEAN :
       \E src \in RankOne(staging, partitionKeyMap(tableName)) :
          LET res == MergeInto(tableName, target, src, JoinColumns(tableName),
                               strKeys, keepLatest)
              ok  == ~res.err /\ scanned
          IN  /\ keepLatestRecordOnDedup' = keepLatest
              /\ source' = src
              /\ before' = target
              /\ target' = res.target
              /\ inserted' = IF ok THEN res.inserted ELSE 0
              /\ updated' = IF ok THEN res.updated ELSE 0
              /\ dedupRows' = IF ok THEN DedupRows(res.inserted, res.updated) ELSE <<>>
              /\ mret' = IF res.err THEN "merge into table"
                         ELSE IF ~scanned THEN "getting rows affected for dedup"
                         ELSE "nil"
    /\ mpc' = "merged"
    /\ UNCHANGED <<tableName, staging, strKeys>>
    /\ UNCHANGED otherThanMerge

\* the MERGE statement fails in the backend: nothing is merged
LoadTableMergeFails ==
    /\ mpc = "copied"
    /\ source' = {}
    /\ before' = target
    /\ inserted' = 0
    /\ updated' = 0
    /\ dedupRows' = <<>>
    /\ mret' = "merge into table"
    /\ mpc' = "merged"
    /\ UNCHANGED <<tableName, target, staging, strKeys, keepLatestRecordOnDedup>>
    /\ UNCHANGED otherThanMerge

\* loadTable returns: the deferred db.Close() ends the session and with it the
\* temporary staging table
LoadTableReturn ==
    /\ mpc = "merged"
    /\ mpc' = "idle"
    /\ staging' = <<>>
    /\ strKeys' = <<>>
    /\ source' = {}
    /\ before' = EmptyBag
    /\ keepLatestRecordOnDedup' = FALSE
    /\ inserted' = 0
    /\ updated' = 0
    /\ dedupRows' = <<>>
    /\ UNCHANGED <<tableName, target, mret>>
    /\ UNCHANGED otherThanMerge


----------------------------------------------------------------------------
(* Error values *)

\* errors as the driver tells them apart: nil, a *snowflake.SnowflakeError
\* with its SQLState, or any other error value
Nil == [isNil |-> TRUE, snowflake |-> FALSE, SQLState |-> ""]
SnowflakeError(state) == [isNil |-> FALSE, snowflake |-> TRUE, SQLState |-> state]
OtherError == [isNil |-> FALSE, snowflake |-> FALSE, SQLState |-> ""]
\* context.DeadlineExceeded, the error errors.Is looks for in a chain
DeadlineExceeded == [isNil |-> FALSE, snowflake |-> FALSE, SQLState |-> "",
                     deadline |-> TRUE]

\* the SQLState the driver reads as "already exists"
AlreadyExistsState == "42601"
\* the SQLState of a statement naming a schema or table that does not exist
DoesNotExistState == "42S02"

\* checkAndIgnoreAlreadyExistError with nothing ignored but nil
checkAndIgnoreNothing(err) == err.isNil

checkAndIgnoreAlreadyExistError(err) ==
    IF ~err.isNil
    THEN IF err.snowflake /\ err.SQLState = AlreadyExistsState THEN TRUE ELSE FALSE
    ELSE TRUE

\* the errors a failing step hands to the operation
Causes == {SnowflakeError(AlreadyExistsState), OtherError}

\* An error an operation returns: the prefixes fmt.Errorf("<prefix>: %w", err)
\* put before it, outermost first, and the error at the end of the chain.
Raw(err) == [prefix |-> <<>>, cause |-> err]
NoError == Raw(Nil)
Errorf(prefix, e) == [prefix |-> <<prefix>> \o e.prefix, cause |-> e.cause]
\* errors.Is(e, tgt): tgt is e or is wrapped somewhere in its chain
Is(e, tgt) == e.cause = tgt

----------------------------------------------------------------------------
(* SpecOps: connections, statements and log entries of the operations *)

\* connections one behaviour may open
MaxConns == 3

identityMergeRulesTable == "RUDDER_IDENTITY_MERGE_RULES"
identityMappingsTable == "RUDDER_IDENTITY_MAPPINGS"

\* the temporary credentials GetTemporaryS3Cred hands out
tempAccessKeyId == "temp-access-key-id"
tempSecretAccessKey == "temp-secret-access-key"
token == "temp-session-token"

\* A generated statement is a sequence of tokens: plain text (key "") or an
\* assignment KEY='value'.
Text(t) == [key |-> "", value |-> t]
Assign(k, v) == [key |-> k, value |-> v]

\* authString: embedded temporary credentials, or a storage integration
authString(creds) ==
    IF creds
    THEN <<Text("CREDENTIALS = ("),
           Assign("AWS_KEY_ID", tempAccessKeyId),
           Assign("AWS_SECRET_KEY", tempSecretAccessKey),
           Assign("AWS_TOKEN", token),
           Text(")")>>
    ELSE <<Text("STORAGE_INTEGRATION = "), Text("integration")>>

\* the keys of the patterns AWS_KEY_ID='[^']*' etc. handed to misc.ReplaceMultiRegex
SecretPatterns == {"AWS_KEY_ID", "AWS_SECRET_KEY", "AWS_TOKEN"}

\* misc.ReplaceMultiRegex: every KEY='...' of a pattern becomes KEY='***'
ReplaceMultiRegex(stmt, patterns) ==
    [i \in DOMAIN stmt |->
        IF stmt[i].key \in patterns THEN Assign(stmt[i].key, "***") ELSE stmt[i]]

CopyStatement(tbl, creds) ==
    <<Text("COPY INTO"), Text(tbl), Text("FROM")>> \o authString(creds)
        \o <<Text("PATTERN = '.*\\.csv\\.gz' FILE_FORMAT = ( TYPE = csv ) TRUNCATECOLUMNS = TRUE")>>

Statement(kind, tbl) == <<Text(kind), Text(tbl)>>

NoQuery == <<>>
Entry(msg, query) == [msg |-> msg, query |-> query]
\* a statement executed on connection h (on the primary connection in IssuedOnPrimary)
IssuedOnPrimary(h, kind) == [conn |-> DB, sql |-> kind]
Issued(h, kind) == [conn |-> h, sql |-> kind]

StagingTableName(tbl) == "RUDDER_STAGING_" \o tbl

\* the outcome of one operation: returned error ("nil" for none), the connection
\* it opened through connect (0 when connect was not reached or failed), whether it
\* closed that connection before returning, statements and log entries
Outcome(ret, db, closed, st, lg) ==
    [ret |-> ret, db |-> db, closed |-> closed, stmts |-> st, log |-> lg]

\* the steps of loadTable that can fail, in order; "none" is the success path
LoadTableFailures ==
    {"none", "connect", "create temporary table", "getting sample load file location",
     "copy into table", "merge into table", "getting rows affected for dedup"}

\* if !skipClosingDBSession { defer func() { _ = db.Close() }() }
DeferredCloseAlways(skipClosingDBSession) == TRUE
DeferredClose(skipClosingDBSession) == ~skipClosingDBSession

\* loadTable(ctx, tableName, tableSchemaInUpload, skipClosingDBSession) on new
\* connection h, failing at step fail
loadTable(tbl, skipClosingDBSession, creds, fail, cause, h) ==
    LET closes == DeferredClose(skipClosingDBSession)
        stg == StagingTableName(tbl)
        copy == CopyStatement(stg, creds)
        sanitisedQuery == ReplaceMultiRegex(copy, SecretPatterns)
        merge == Statement("MERGE INTO", tbl)
        l0 == <<Entry("started loading", NoQuery)>>
        l1 == l0 \o <<Entry("creating temporary table", NoQuery)>>
        s1 == <<Issued(h, "CREATE TEMPORARY TABLE")>>
        l2 == l1 \o <<Entry("copy command", sanitisedQuery)>>
        s2 == s1 \o <<Issued(h, "COPY INTO")>>
        l3 == l2 \o <<Entry("deduplication", merge)>>
        s3 == s2 \o <<Issued(h, "MERGE INTO")>>
    IN  CASE fail = "connect" ->
               Outcome(Errorf(fail, Raw(cause)), 0, FALSE, <<>>, l0)
          [] fail = "create temporary table" ->
               Outcome(Errorf(fail, Raw(cause)), h, closes, s1,
                       l1 \o <<Entry("failure creating temporary table", NoQuery)>>)
          [] fail = "getting sample load file location" ->
               Outcome(Errorf(fail, Raw(cause)), h, closes, s1, l1)
          [] fail = "copy into table" ->
               Outcome(Errorf(fail, Raw(cause)), h, closes, s2,
                       l2 \o <<Entry("failure running COPY command", sanitisedQuery)>>)
          [] fail = "merge into table" ->
               Outcome(Errorf(fail, Raw(cause)), h, closes, s3,
                       l3 \o <<Entry("failure running deduplication", merge)>>)
          [] fail = "getting rows affected for dedup" ->
               Outcome(Errorf(fail, Raw(cause)), h, closes, s3,
                       l3 \o <<Entry("getting rows affected for dedup", merge)>>)
          [] OTHER ->
               Outcome(NoError, h, closes, s3, l3 \o <<Entry("completed loading", NoQuery)>>)

\* the steps of loadUserTables after the identifies load that can fail
UsersFailures ==
    {"none", "creating staging table for users", "running deduplication",
     "getting rows affected for dedup"}

\* loadUserTables: loadTable(identifies, skipClosingDBSession = true), then the
\* users staging table and merge on the connection the identifies load left open.
\* ret is the error reported for identifies or users ("nil" when both are nil).
loadUserTables(hasUsersSchema, creds, failIdentifies, failUsers, cause, h) ==
    LET resp == loadTable(identifiesTable, TRUE, creds, failIdentifies, cause, h)
        l0 == <<Entry("started loading for identifies and users tables", NoQuery)>>
              \o resp.log
        create == Statement("CREATE TEMPORARY TABLE AS", StagingTableName(usersTable))
        merge == Statement("MERGE INTO", usersTable)
        l1 == l0 \o <<Entry("creating staging table for users", create)>>
        s1 == resp.stmts \o <<Issued(h, "CREATE TEMPORARY TABLE AS")>>
        l2 == l1 \o <<Entry("deduplication", merge)>>
        s2 == s1 \o <<Issued(h, "MERGE INTO")>>
    IN  IF resp.ret # NoError
        THEN \* the error return at lines 727-731: nothing is deferred yet
             Outcome(Errorf("loading table " \o identifiesTable, resp.ret), resp.db, resp.closed,
                     resp.stmts, l0)
        ELSE \* defer resp.db.Close() is registered from here on
        IF ~hasUsersSchema
        THEN Outcome(NoError, h, TRUE, resp.stmts, l0)
        ELSE CASE failUsers = "creating staging table for users" ->
                    Outcome(Errorf(failUsers, Raw(cause)), h, TRUE, s1,
                            l1 \o <<Entry("failure creating staging table for users", NoQuery)>>)
               [] failUsers = "running deduplication" ->
                    Outcome(Errorf(failUsers, Raw(cause)), h, TRUE, s2,
                            l2 \o <<Entry("failure running deduplication", merge)>>)
               [] failUsers = "getting rows affected for dedup" ->
                    Outcome(Errorf(failUsers, Raw(cause)), h, TRUE, s2,
                            l2 \o <<Entry("getting rows affected for dedup", merge)>>)
               [] OTHER ->
                    Outcome(NoError, h, TRUE, s2,
                            l2 \o <<Entry("completed loading for users and identifies tables",
                                          NoQuery)>>)

MergeRulesFailures == {"none", "GetSingleLoadFile", "connect", "COPY INTO"}

\* LoadIdentityMergeRulesTable: a COPY INTO the merge-rules table on a connection
\* of its own; no statement of the function closes dbHandle
LoadIdentityMergeRulesTableRun(creds, fail, cause, h) ==
    LET copy == CopyStatement(identityMergeRulesTable, creds)
        sanitisedSQLStmt == ReplaceMultiRegex(copy, SecretPatterns)
        l0 == <<Entry("Starting load for table", NoQuery),
                Entry("Fetching load file location", NoQuery)>>
        l1 == l0 \o <<Entry("Dedup records for table using staging table",
                            sanitisedSQLStmt)>>
        s1 == <<Issued(h, "COPY INTO")>>
    IN  CASE fail = "GetSingleLoadFile" -> Outcome(Raw(cause), 0, FALSE, <<>>, l0)
          [] fail = "connect" ->
               Outcome(Raw(cause), 0, FALSE, <<>>,
                       l0 \o <<Entry("Error establishing connection for copying table",
                                     NoQuery)>>)
          [] fail = "COPY INTO" ->
               Outcome(Raw(cause), h, FALSE, s1,
                       l1 \o <<Entry("Error running MERGE for dedup", NoQuery)>>)
          [] OTHER ->
               Outcome(NoError, h, FALSE, s1, l1 \o <<Entry("Complete load for table", NoQuery)>>)

\* what the backend can answer to ALTER TABLE staging ADD COLUMN "ID" ... AUTOINCREMENT
AlterAnswers == {Nil} \cup Causes

MappingsFailures ==
    {"none", "GetSingleLoadFile", "connect", "CREATE TEMPORARY TABLE", "COPY INTO",
     "MERGE INTO"}

\* LoadIdentityMappingsTable: staging table, autoincrement column, COPY, MERGE on a
\* connection of its own; no statement of the function closes dbHandle
LoadIdentityMappingsTableRun(creds, fail, cause, alter, h) ==
    LET stg == StagingTableName(identityMappingsTable)
        create == Statement("CREATE TEMPORARY TABLE", stg)
        addId == Statement("ALTER TABLE ADD COLUMN", stg)
        copy == CopyStatement(stg, creds)
        merge == Statement("MERGE INTO", identityMappingsTable)
        l0 == <<Entry("Starting load for table", NoQuery),
                Entry("Fetching load file location", NoQuery)>>
        l1 == l0 \o <<Entry("Creating temporary table for table", create)>>
        s1 == <<Issued(h, "CREATE TEMPORARY TABLE")>>
        l2 == l1 \o <<Entry("Adding autoincrement column for table", addId)>>
        s2 == s1 \o <<Issued(h, "ALTER TABLE ADD COLUMN")>>
        \* line 675 logs sqlStatement itself
        l3 == l2 \o <<Entry("Dedup records for table using staging table", copy)>>
        s3 == s2 \o <<Issued(h, "COPY INTO")>>
        l4 == l3 \o <<Entry("Dedup records for table using staging table", merge)>>
        s4 == s3 \o <<Issued(h, "MERGE INTO")>>
    IN  CASE fail = "GetSingleLoadFile" -> Outcome(Raw(cause), 0, FALSE, <<>>, l0)
          [] fail = "connect" ->
               Outcome(Raw(cause), 0, FALSE, <<>>,
                       l0 \o <<Entry("Error establishing connection for copying table",
                                     NoQuery)>>)
          [] fail = "CREATE TEMPORARY TABLE" ->
               Outcome(Raw(cause), h, FALSE, s1,
                       l1 \o <<Entry("Error creating temporary table for table", NoQuery)>>)
          [] ~alter.isNil /\ ~checkAndIgnoreAlreadyExistError(alter) ->
               Outcome(Raw(alter), h, FALSE, s2,
                       l2 \o <<Entry("Error adding autoincrement column for table",
                                     NoQuery)>>)
          [] fail = "COPY INTO" ->
               Outcome(Raw(cause), h, FALSE, s3,
                       l3 \o <<Entry("Error running MERGE for dedup", NoQuery)>>)
          [] fail = "MERGE INTO" ->
               Outcome(Raw(cause), h, FALSE, s4,
                       l4 \o <<Entry("Error running MERGE for dedup", NoQuery)>>)
          [] OTHER ->
               Outcome(NoError, h, FALSE, s4, l4 \o <<Entry("Complete load for table", NoQuery)>>)

OpsStart ==
    /\ DB = 0
    /\ Uploader = FALSE
    /\ useTempCreds \in BOOLEAN
    /\ conns = <<>>
    /\ last = [op |-> "none", ret |-> "nil", opened |-> {}, primary |-> 0, empty |-> FALSE, ping |-> NoError]
    /\ stmts = <<>>
    /\ log = <<>>

\* the handle the next connect returns
NewConn == Len(conns) + 1

CanConnect == Len(conns) < MaxConns

\* the connections after an operation whose outcome is o
ConnsAfter(o) ==
    IF o.db = 0 THEN conns
    ELSE Append(conns, IF o.closed THEN "closed" ELSE "open")

\* a load operation ran with outcome o: the frame of every load operation
Ran(name, o) ==
    /\ conns' = ConnsAfter(o)
    /\ last' = [op |-> name, ret |-> o.ret,
                opened |-> IF o.db = 0 THEN {} ELSE {o.db}, primary |-> DB,
                empty |-> FALSE, ping |-> NoError]
    /\ stmts' = o.stmts
    /\ log' = o.log
    /\ UNCHANGED <<DB, Uploader, useTempCreds>>
    /\ UNCHANGED otherThanOps

\* Setup: sf.DB, err = sf.connect(...); a failed connect stores nil
Setup ==
    /\ CanConnect
    /\ \E ok \in BOOLEAN :
          /\ DB' = IF ok THEN NewConn ELSE 0
          /\ conns' = IF ok THEN Append(conns, "open") ELSE conns
          /\ last' = [op |-> "Setup", ret |-> IF ok THEN "nil" ELSE "connect",
                      opened |-> IF ok THEN {NewConn} ELSE {}, primary |-> DB,
                      empty |-> FALSE, ping |-> NoError]
    /\ Uploader' = TRUE
    /\ stmts' = <<>>
    /\ log' = <<>>
    /\ UNCHANGED useTempCreds
    /\ UNCHANGED otherThanOps

\* Cleanup: closes sf.DB when it is not nil
Cleanup ==
    /\ last.op # "none"
    /\ conns' = IF DB # 0 THEN [conns EXCEPT ![DB] = "closed"] ELSE conns
    /\ last' = [op |-> "Cleanup", ret |-> "nil", opened |-> {}, primary |-> DB,
                empty |-> FALSE, ping |-> NoError]
    /\ stmts' = <<>>
    /\ log' = <<>>
    /\ UNCHANGED <<DB, Uploader, useTempCreds>>
    /\ UNCHANGED otherThanOps

\* LoadTable: loadTable with skipClosingDBSession = false
LoadTable ==
    /\ Uploader
    /\ CanConnect
    /\ \E fail \in LoadTableFailures, cause \in Causes :
          Ran("LoadTable", loadTable(tracksTable, FALSE, useTempCreds, fail, cause, NewConn))

LoadUserTables ==
    /\ Uploader
    /\ CanConnect
    /\ \E hasUsersSchema \in BOOLEAN, cause \in Causes :
       \E fails \in (LoadTableFailures \X {"none"}) \cup ({"none"} \X UsersFailures) :
          Ran("LoadUserTables",
              loadUserTables(hasUsersSchema, useTempCreds, fails[1], fails[2],
                             cause, NewConn))

LoadIdentityMergeRulesTable ==
    /\ Uploader
    /\ CanConnect
    /\ \E fail \in MergeRulesFailures, cause \in Causes :
          Ran("LoadIdentityMergeRulesTable",
              LoadIdentityMergeRulesTableRun(useTempCreds, fail, cause, NewConn))

LoadIdentityMappingsTable ==
    /\ Uploader
    /\ CanConnect
    /\ \E fail \in MappingsFailures, cause \in Causes :
       \E alter \in AlterAnswers :
          Ran("LoadIdentityMappingsTable",
              LoadIdentityMappingsTableRun(useTempCreds, fail, cause, alter, NewConn))

\* the tables IsEmpty looks at, in order
EventTables == <<"TRACKS", "PAGES", "SCREENS", "IDENTIFIES", "ALIASES">>

\* what IsEmpty can find for one table: the table is missing, exists without rows,
\* exists with rows, or the existence check or the count fails
TableStates == {"missing", "empty", "rows", "exists error", "count error"}

\* the namespaces IsEmpty is run against: one state per table, at most one table
\* of the five not missing (every branch of the loop, at every position)
Namespaces ==
    {ns \in [DOMAIN EventTables -> TableStates] :
        \A i \in DOMAIN ns : \A j \in DOMAIN ns :
            (ns[i] # "missing" /\ ns[j] # "missing") => i = j}

RECURSIVE IsEmptyLoop(_, _, _, _)
\* the loop of IsEmpty from table i on, on connection h
IsEmptyLoop(ns, i, h, st) ==
    IF i > Len(EventTables) THEN [empty |-> TRUE, ret |-> "nil", stmts |-> st]
    ELSE LET s1 == Append(st, Issued(h, "SELECT EXISTS"))
             s2 == Append(s1, Issued(h, "SELECT COUNT(*)"))
         IN  CASE ns[i] = "exists error" ->
                    [empty |-> TRUE, ret |-> "exists error", stmts |-> s1]
               [] ns[i] = "missing" -> IsEmptyLoop(ns, i + 1, h, s1)
               [] ns[i] = "count error" ->
                    [empty |-> TRUE, ret |-> "count error", stmts |-> s2]
               [] ns[i] = "rows" -> [empty |-> FALSE, ret |-> "nil", stmts |-> s2]
               [] OTHER -> IsEmptyLoop(ns, i + 1, h, s2)

\* the value IsEmpty stores in sf.DB: the connection it opens, nil when connect fails
IsEmptyDB(ok, h) == IF ok THEN h ELSE 0

\* what IsEmpty returns when a failed connect is taken for a success
IsEmptyRunIgnoringConnect(ns, ok, h) == IsEmptyLoop(ns, 1, h, <<>>)

\* what IsEmpty returns: empty = true and the connect error when the connect
\* fails, the outcome of the loop on the new connection h otherwise
IsEmptyRun(ns, ok, h) ==
    IF ok THEN IsEmptyLoop(ns, 1, h, <<>>)
    ELSE [empty |-> TRUE, ret |-> "connect", stmts |-> <<>>]

\* IsEmpty: sf.DB, err = sf.connect(...); defer sf.DB.Close(); then the loop
IsEmpty ==
    /\ CanConnect
    /\ \E ok \in BOOLEAN :
       \E ns \in Namespaces :
          LET res == IsEmptyRun(ns, ok, NewConn)
          IN  /\ DB' = IsEmptyDB(ok, NewConn)
              /\ conns' = IF ok THEN Append(conns, "closed") ELSE conns
              /\ last' = [op |-> "IsEmpty", ret |-> res.ret,
                          opened |-> IF ok THEN {NewConn} ELSE {}, primary |-> DB,
                          empty |-> res.empty, ping |-> NoError]
              /\ stmts' = res.stmts
    /\ log' = <<>>
    /\ UNCHANGED <<Uploader, useTempCreds>>
    /\ UNCHANGED otherThanOps

\* GetTotalCountInTable: one query on sf.DB. A nil sf.DB is dereferenced (panic);
\* on a closed handle database/sql answers "sql: database is closed".
GetTotalCountInTable ==
    /\ last.op # "none"
    /\ \E backend \in {"nil", "error"} :
          last' = [op |-> "GetTotalCountInTable",
                   ret |-> IF DB = 0 THEN "panic"
                           ELSE IF conns[DB] = "closed" THEN "sql: database is closed"
                           ELSE backend,
                   opened |-> {}, primary |-> DB, empty |-> FALSE, ping |-> NoError]
    /\ stmts' = IF DB = 0 THEN <<>> ELSE <<Issued(DB, "SELECT count(*)")>>
    /\ log' = <<>>
    /\ UNCHANGED <<DB, Uploader, useTempCreds, conns>>
    /\ UNCHANGED otherThanOps

\* what sf.DB.PingContext can answer: nil, the context's deadline error as it is
\* or wrapped by the driver, or another error
PingAnswers ==
    {NoError, Raw(DeadlineExceeded), Errorf("dial", Raw(DeadlineExceeded)),
     Raw(OtherError), Errorf("dial", Raw(OtherError)), Raw(SnowflakeError("08001"))}

\* TestConnection on the answer of the ping
TestConnectionAnyTimeout(err) ==
    IF err # NoError THEN Errorf("connection timeout", err) ELSE NoError
TestConnectionRun(err) ==
    IF Is(err, DeadlineExceeded) THEN Errorf("connection timeout", err)
    ELSE IF err # NoError THEN Errorf("pinging", err)
    ELSE NoError

\* TestConnection: one ping on sf.DB; a closed handle answers with an error
TestConnection ==
    /\ DB # 0
    /\ \E err \in IF conns[DB] = "closed" THEN PingAnswers \ {NoError} ELSE PingAnswers :
          last' = [op |-> "TestConnection", ret |-> TestConnectionRun(err),
                   opened |-> {}, primary |-> DB, empty |-> FALSE, ping |-> err]
    /\ stmts' = <<>>
    /\ log' = <<>>
    /\ UNCHANGED <<DB, Uploader, useTempCreds, conns>>
    /\ UNCHANGED otherThanOps

----------------------------------------------------------------------------
(* SpecSchema: CreateSchema, CreateTable, AddColumns and FetchSchema *)

\* longest column list handed to AddColumns
MaxAddColumns == 2

\* the type names of the upload schema and the backend's type for each
WarehouseTypes == {"int", "string"}
dataTypesMap(t) == IF t = "int" THEN "NUMBER" ELSE "VARCHAR"

\* raw types a catalog can hold; GEOGRAPHY has no mapping entry
RawTypes == {"NUMBER", "VARCHAR", "GEOGRAPHY"}
MissingDatatype == "<missing_datatype>"

\* TypeMapper.map(rawType, scale) -> (abstractType, ok)
calculateDataType(columnType, numericScale) ==
    CASE columnType = "NUMBER" -> [datatype |-> "int", ok |-> TRUE]
      [] columnType = "VARCHAR" -> [datatype |-> "string", ok |-> TRUE]
      [] OTHER -> [datatype |-> "", ok |-> FALSE]

\* tables the driver creates and alters, and a table made by someone else
DriverTables == {"TRACKS"}
ForeignTable == "GEO"
SchemaColumns == {"A", "B", "C"}
SchemaColumnOrder == <<"A", "B", "C">>
ColumnIndex(c) == CHOOSE i \in DOMAIN SchemaColumnOrder : SchemaColumnOrder[i] = c

\* a catalog column: data_type and numeric_scale
CatalogColumn(rawType) == [data_type |-> rawType, numeric_scale |-> NULL]

\* f with x mapped to v, x added to the domain when it is new
Put(f, x, v) == [y \in DOMAIN f \cup {x} |-> IF y = x THEN v ELSE f[y]]

\* what the namespace can hold before the driver touches it
ForeignCatalogs ==
    {<<>>} \cup
    { Put(<<>>, ForeignTable, cols) :
        cols \in { Put(<<>>, "A", CatalogColumn("GEOGRAPHY")),
                   Put(Put(<<>>, "A", CatalogColumn("GEOGRAPHY")), "B", CatalogColumn("NUMBER")) } }

\* column lists of the calls: distinct names, one to MaxAddColumns of them
ColumnInfo == [Name : SchemaColumns, Type : WarehouseTypes]
ColumnLists ==
    { l \in UNION { [1..n -> ColumnInfo] : n \in 1..MaxAddColumns } :
        \A i, j \in DOMAIN l : i < j => ColumnIndex(l[i].Name) < ColumnIndex(l[j].Name) }

\* the answers a statement can get that are not decided by the catalog
ExecAnswers == {"ok", "error"}

\* what a call leaves behind: its error, the backend's own answer, the
\* namespace and catalog after it, and the statements it issued
Done(err, backend, ns, cat, st) ==
    [err |-> err, backend |-> backend, namespaceExists |-> ns, catalog |-> cat, issued |-> st]

\* schemaExists: SELECT EXISTS over INFORMATION_SCHEMA.SCHEMATA; a scan that
\* finds no rows is not an error and reads as "does not exist"
ExistsAnswers == {"ok", "no rows", "error"}
schemaExists(ns, answer) ==
    CASE answer = "ok" -> [exists |-> ns, err |-> Nil]
      [] answer = "no rows" -> [exists |-> FALSE, err |-> Nil]
      [] OTHER -> [exists |-> FALSE, err |-> OtherError]

\* createSchema: CREATE SCHEMA IF NOT EXISTS
createSchema(ns, cat, st, answer) ==
    IF answer = "ok"
    THEN Done(Nil, Nil, TRUE, cat, Append(st, "CREATE SCHEMA IF NOT EXISTS"))
    ELSE Done(OtherError, OtherError, ns, cat, Append(st, "CREATE SCHEMA IF NOT EXISTS"))

CreateSchemaRun(ns, cat, existsAnswer, answer) ==
    LET e == schemaExists(ns, existsAnswer)
        st == <<"SELECT EXISTS">>
    IN  IF ~e.err.isNil THEN Done(e.err, e.err, ns, cat, st)
        ELSE IF e.exists THEN Done(Nil, Nil, ns, cat, st)
        ELSE createSchema(ns, cat, st, answer)

\* the catalog columns a column list declares
TypeOf(columns, c) == columns[CHOOSE i \in DOMAIN columns : columns[i].Name = c].Type
TableColumns(columns) ==
    [c \in {columns[i].Name : i \in DOMAIN columns} |->
        CatalogColumn(dataTypesMap(TypeOf(columns, c)))]

\* createTable: CREATE TABLE IF NOT EXISTS
createTable(ns, cat, tbl, columns, answer) ==
    LET st == <<"CREATE TABLE IF NOT EXISTS">>
    IN  CASE answer # "ok" -> Done(OtherError, OtherError, ns, cat, st)
          [] answer = "ok" /\ ~ns ->
                Done(SnowflakeError(DoesNotExistState), SnowflakeError(DoesNotExistState), ns, cat, st)
          [] answer = "ok" /\ ns /\ tbl \in DOMAIN cat -> Done(Nil, Nil, ns, cat, st)
          [] OTHER -> Done(Nil, Nil, ns, Put(cat, tbl, TableColumns(columns)), st)

CreateTableRun(ns, cat, tbl, columns, answer) == createTable(ns, cat, tbl, columns, answer)

\* the backend's answer to ALTER TABLE ... ADD COLUMN c1 t1, c2 t2, ...: all
\* the columns are added, or none is
AlterAddColumn(ns, cat, tbl, columns, answer) ==
    CASE answer # "ok" -> [err |-> OtherError, catalog |-> cat]
      [] answer = "ok" /\ (~ns \/ tbl \notin DOMAIN cat) ->
            [err |-> SnowflakeError(DoesNotExistState), catalog |-> cat]
      [] answer = "ok" /\ ns /\ tbl \in DOMAIN cat
            /\ (\E i \in DOMAIN columns : columns[i].Name \in DOMAIN cat[tbl]) ->
            [err |-> SnowflakeError(AlreadyExistsState), catalog |-> cat]
      [] OTHER ->
            [err |-> Nil,
             catalog |-> [cat EXCEPT ![tbl] =
                [c \in DOMAIN cat[tbl] \cup DOMAIN TableColumns(columns) |->
                    IF c \in DOMAIN cat[tbl] THEN cat[tbl][c] ELSE TableColumns(columns)[c]]]]

\* the single-column case in which AddColumns drops the backend's error,
\* here for a column list of any length
IgnoresErrorAnyCount(columnsInfo, err) ==
    ~err.isNil /\ checkAndIgnoreAlreadyExistError(err)

IgnoresError(columnsInfo, err) ==
    Len(columnsInfo) = 1 /\ ~err.isNil /\ checkAndIgnoreAlreadyExistError(err)

AddColumnsRun(ns, cat, tbl, columnsInfo, answer) ==
    LET r == AlterAddColumn(ns, cat, tbl, columnsInfo, answer)
        err == IF IgnoresError(columnsInfo, r.err) THEN Nil ELSE r.err
    IN  Done(err, r.err, ns, r.catalog, <<"ALTER TABLE ADD COLUMN">>)

\* the rows of INFORMATION_SCHEMA.COLUMNS for the namespace
CatalogRows(cat) ==
    UNION { { [table_name |-> t, column_name |-> c,
                data_type |-> cat[t][c].data_type,
                numeric_scale |-> cat[t][c].numeric_scale] : c \in DOMAIN cat[t] } :
            t \in DOMAIN cat }

\* m[tableName][columnName] = datatype on a map of maps
SetColumn(m, tbl, columnName, datatype) ==
    Put(m, tbl, Put(m[tbl], columnName, datatype))

\* one pass of the rows.Next() loop of FetchSchema
ScanRow(row, schema, unrecognizedSchema) ==
    LET withTable == IF row.table_name \notin DOMAIN schema
                     THEN Put(schema, row.table_name, <<>>)
                     ELSE schema
        d == calculateDataType(row.data_type, row.numeric_scale)
    IN  IF d.ok
        THEN [schema |-> SetColumn(withTable, row.table_name, row.column_name, d.datatype),
              unrecognizedSchema |-> unrecognizedSchema]
        ELSE [schema |-> withTable,
              unrecognizedSchema |->
                SetColumn(IF row.table_name \notin DOMAIN unrecognizedSchema
                          THEN Put(unrecognizedSchema, row.table_name, <<>>)
                          ELSE unrecognizedSchema,
                          row.table_name, row.column_name, MissingDatatype)]

RECURSIVE ScanRows(_, _, _)
ScanRows(rows, schema, unrecognizedSchema) ==
    IF rows = {} THEN [schema |-> schema, unrecognizedSchema |-> unrecognizedSchema]
    ELSE LET row == CHOOSE r \in rows : TRUE
             s == ScanRow(row, schema, unrecognizedSchema)
         IN  ScanRows(rows \ {row}, s.schema, s.unrecognizedSchema)

\* how the catalog query of FetchSchema can end
FetchAnswers == {"ok", "sql.ErrNoRows", "query error", "scan error", "rows.Err"}

Fetched(schema, unrecognizedSchema, isNil, err) ==
    [schema |-> schema, unrecognized |-> unrecognizedSchema, nilSchemas |-> isNil, err |-> err]

\* FetchSchema if a failed row iteration returned what was scanned so far
FetchSchemaRunKeepingScanned(cat, answer) ==
    LET s == ScanRows(CatalogRows(cat), <<>>, <<>>)
    IN  CASE answer = "sql.ErrNoRows" -> Fetched(<<>>, <<>>, FALSE, "nil")
          [] answer = "query error" -> Fetched(<<>>, <<>>, TRUE, "fetching schema: query error")
          [] answer = "scan error" /\ CatalogRows(cat) # {} ->
                Fetched(<<>>, <<>>, TRUE, "scanning schema: scan error")
          [] answer = "rows.Err" ->
                Fetched(s.schema, s.unrecognizedSchema, FALSE, "fetching schema: rows.Err")
          [] OTHER -> Fetched(s.schema, s.unrecognizedSchema, FALSE, "nil")

FetchSchemaRun(cat, answer) ==
    CASE answer = "sql.ErrNoRows" -> Fetched(<<>>, <<>>, FALSE, "nil")
      [] answer = "query error" -> Fetched(<<>>, <<>>, TRUE, "fetching schema: query error")
      [] answer = "scan error" /\ CatalogRows(cat) # {} ->
            Fetched(<<>>, <<>>, TRUE, "scanning schema: scan error")
      [] answer = "rows.Err" -> Fetched(<<>>, <<>>, TRUE, "fetching schema: rows.Err")
      [] OTHER -> LET s == ScanRows(CatalogRows(cat), <<>>, <<>>)
                  IN  Fetched(s.schema, s.unrecognizedSchema, FALSE, "nil")

NoCall ==
    [op |-> "none", table |-> "", columns |-> <<>>, answer |-> "", backend |-> Nil, err |-> Nil]
NotFetched == Fetched(<<>>, <<>>, TRUE, "none")

\* the catalog model before any call, as the other specifications keep it
SchemaIdle ==
    /\ namespaceExists = FALSE
    /\ catalog = <<>>
    /\ call = NoCall
    /\ issued = <<>>
    /\ fetched = NotFetched

SchemaStart ==
    /\ namespaceExists \in BOOLEAN
    /\ catalog \in (IF namespaceExists THEN ForeignCatalogs ELSE {<<>>})
    /\ call = NoCall
    /\ issued = <<>>
    /\ fetched = NotFetched

Called(op, tbl, columns, answer, o) ==
    /\ call' = [op |-> op, table |-> tbl, columns |-> columns, answer |-> answer,
                backend |-> o.backend, err |-> o.err]
    /\ namespaceExists' = o.namespaceExists
    /\ catalog' = o.catalog
    /\ issued' = o.issued
    /\ fetched' = NotFetched

CreateSchema ==
    /\ \E existsAnswer \in ExistsAnswers, answer \in ExecAnswers :
           Called("CreateSchema", "", <<>>, answer,
                  CreateSchemaRun(namespaceExists, catalog, existsAnswer, answer))
    /\ UNCHANGED otherThanSchema

CreateTable ==
    /\ \E tbl \in DriverTables, columns \in ColumnLists, answer \in ExecAnswers :
           Called("CreateTable", tbl, columns, answer,
                  CreateTableRun(namespaceExists, catalog, tbl, columns, answer))
    /\ UNCHANGED otherThanSchema

AddColumns ==
    /\ \E tbl \in DriverTables, columnsInfo \in ColumnLists, answer \in ExecAnswers :
           Called("AddColumns", tbl, columnsInfo, answer,
                  AddColumnsRun(namespaceExists, catalog, tbl, columnsInfo, answer))
    /\ UNCHANGED otherThanSchema

FetchSchema ==
    /\ \E answer \in FetchAnswers :
          /\ fetched' = FetchSchemaRun(catalog, answer)
          /\ call' = [op |-> "FetchSchema", table |-> "", columns |-> <<>>,
                      answer |-> answer, backend |-> Nil, err |-> Nil]
    /\ issued' = <<"SELECT FROM INFORMATION_SCHEMA.COLUMNS">>
    /\ UNCHANGED <<namespaceExists, catalog>>
    /\ UNCHANGED otherThanSchema

----------------------------------------------------------------------------
(* SpecMappings: the staging table and MERGE of LoadIdentityMappingsTable *)

\* most rows in the load file of one call
MaxMappings == 2

MappingKey == {"MERGE_PROPERTY_TYPE", "MERGE_PROPERTY_VALUE"}
MappingColumns == {"MERGE_PROPERTY_TYPE", "MERGE_PROPERTY_VALUE", "RUDDER_ID", "UPDATED_AT"}

\* the rows a load file can hold
MappingRows ==
    [MERGE_PROPERTY_TYPE : {1}, MERGE_PROPERTY_VALUE : {1, 2},
     RUDDER_ID : {1, 2}, UPDATED_AT : {1, 2}]

MappingFiles == UNION { [1..n -> MappingRows] : n \in 1..MaxMappings }

\* ALTER TABLE staging ADD COLUMN "ID" int AUTOINCREMENT start 1 increment 1,
\* then COPY INTO staging(the four columns): row i of the file gets ID i.
\* When the ALTER was answered with already-exists the staging table has the
\* ID column its LIKE gave it, which nothing fills.
Staged(file, alter) ==
    [i \in DOMAIN file |->
        [c \in MappingColumns \cup {"ID"} |->
            IF c = "ID" THEN (IF alter = "ok" THEN i ELSE NULL) ELSE file[i][c]]]

\* the ranking ordered by "ID" ASC: the lowest ID ranks first
CanRankFirstByIDAsc(stg, i) ==
    \A j \in Partition(stg, MappingKey, stg[i]) : stg[j]["ID"] >= stg[i]["ID"]

\* row_number() OVER (PARTITION BY type, value ORDER BY "ID" DESC) can give
\* rank 1 to staged row i
CanRankFirstByID(stg, i) ==
    \A j \in Partition(stg, MappingKey, stg[i]) : stg[j]["ID"] <= stg[i]["ID"]

\* the results the USING subquery can have: one row per partition
RankOneByID(stg) ==
    LET parts == {Partition(stg, MappingKey, stg[i]) : i \in DOMAIN stg}
        picks == {f \in [parts -> DOMAIN stg] :
                    \A p \in parts : f[p] \in p /\ CanRankFirstByID(stg, f[p])}
    IN  {{stg[f[p]] : p \in parts} : f \in picks}

\* UPDATE SET original."RUDDER_ID" = staging."RUDDER_ID",
\*            original."UPDATED_AT" = staging."UPDATED_AT"
UpdatedMapping(r, s) ==
    [r EXCEPT !["RUDDER_ID"] = s["RUDDER_ID"], !["UPDATED_AT"] = s["UPDATED_AT"]]

\* INSERT (the four columns) VALUES (staging's four columns)
InsertedMapping(s) == [c \in MappingColumns |-> s[c]]

\* MERGE INTO RUDDER_IDENTITY_MAPPINGS USING src ON type and value
MergeMappings(tgt, src) ==
    LET tgtRows == BagToSet(tgt)
        hit(r)  == {s \in src : SameOn(MappingKey, r, s)}
        RECURSIVE Apply(_), Insert(_)
        Apply(rs) == IF rs = {} THEN EmptyBag
                     ELSE LET r == CHOOSE x \in rs : TRUE
                              n == IF hit(r) = {} THEN r
                                   ELSE UpdatedMapping(r, CHOOSE s \in hit(r) : TRUE)
                          IN  [i \in {n} |-> CopiesIn(r, tgt)] (+) Apply(rs \ {r})
        Insert(ss) == IF ss = {} THEN EmptyBag
                      ELSE LET s == CHOOSE x \in ss : TRUE
                           IN  [i \in {InsertedMapping(s)} |-> 1] (+) Insert(ss \ {s})
    IN  Apply(tgtRows) (+) Insert({s \in src : Matched(tgt, MappingKey, s) = {}})

\* the mappings table as earlier loads can have left it: at most one row for
\* each (MERGE_PROPERTY_TYPE, MERGE_PROPERTY_VALUE)
MappingTables ==
    { SetToBag(rows) : rows \in
        { R \in SUBSET MappingRows :
            \A r, q \in R : SameOn(MappingKey, r, q) => r = q } }

MappingsStart ==
    /\ mappings \in MappingTables
    /\ mappingsStaging = <<>>
    /\ mappingsBefore = EmptyBag
    /\ mappingsRet = "none"

MappingsIdle ==
    /\ mappings = EmptyBag
    /\ mappingsStaging = <<>>
    /\ mappingsBefore = EmptyBag
    /\ mappingsRet = "none"

\* One call is followed from each table the warehouse can hold.
\* LoadIdentityMappingsTable returning before the COPY INTO ran
LoadIdentityMappingsFailsEarly ==
    /\ mappingsRet = "none"
    /\ \E step \in {"GetSingleLoadFile", "connect", "CREATE TEMPORARY TABLE",
                    "ALTER TABLE ADD COLUMN", "COPY INTO"} : mappingsRet' = step
    /\ mappingsStaging' = <<>>
    /\ mappingsBefore' = mappings
    /\ UNCHANGED mappings
    /\ UNCHANGED otherThanMappings

\* LoadIdentityMappingsTable with the COPY INTO done and the MERGE failing
LoadIdentityMappingsMergeFails ==
    /\ mappingsRet = "none"
    /\ \E file \in MappingFiles, alter \in {"ok", "already exists"} :
          mappingsStaging' = Staged(file, alter)
    /\ mappingsRet' = "MERGE INTO"
    /\ mappingsBefore' = mappings
    /\ UNCHANGED mappings
    /\ UNCHANGED otherThanMappings

\* LoadIdentityMappingsTable running to its end
LoadIdentityMappings ==
    /\ mappingsRet = "none"
    /\ \E file \in MappingFiles, alter \in {"ok", "already exists"} :
          /\ mappingsStaging' = Staged(file, alter)
          /\ \E src \in RankOneByID(Staged(file, alter)) :
                mappings' = MergeMappings(mappings, src)
    /\ mappingsRet' = "nil"
    /\ mappingsBefore' = mappings
    /\ UNCHANGED otherThanMappings

----------------------------------------------------------------------------
(* SpecClassify: errorsMappings and the classification of a message *)

\* most phrases in a message
MaxPhrases == 3

\* A pattern is a sequence of literal phrases and wildcards: ".*" stands for
\* any text, ".*." for any text of at least one character.
errorsMappings == <<
    [Type |-> "PermissionError",
     Format |-> <<"The requested warehouse does not exist or not authorized">>],
    [Type |-> "PermissionError",
     Format |-> <<"The requested database does not exist or not authorized">>],
    [Type |-> "PermissionError",
     Format |-> <<"failed to connect to db. verify account name is correct">>],
    [Type |-> "PermissionError",
     Format |-> <<"Incorrect username or password was specified">>],
    [Type |-> "PermissionError",
     Format |-> <<"Insufficient privileges to operate on table">>],
    [Type |-> "PermissionError",
     Format |-> <<"IP ", ".*", " is not allowed to access Snowflake. Contact your local security administrator or please create a case with Snowflake Support or reach us on our support line">>],
    [Type |-> "PermissionError",
     Format |-> <<"User temporarily locked">>],
    [Type |-> "PermissionError",
     Format |-> <<"Schema ", ".*", " already exists, but current role has no privileges on it">>],
    [Type |-> "PermissionError",
     Format |-> <<"The AWS Access Key Id you provided is not valid">>],
    [Type |-> "PermissionError",
     Format |-> <<"Location ", ".*", " is not allowed by integration ", ".*.", " Please use DESC INTEGRATION to check out allowed and blocked locations.">>],
    [Type |-> "InsufficientResourceError",
     Format |-> <<"Warehouse ", ".*", " cannot be resumed because resource monitor ", ".*", " has exceeded its quota">>],
    [Type |-> "InsufficientResourceError",
     Format |-> <<"Your free trial has ended and all of your virtual warehouses have been suspended. Add billing information in the Snowflake web UI to continue using the full set of Snowflake features.">>],
    [Type |-> "ResourceNotFoundError",
     Format |-> <<"Table ", ".*", " does not exist">>],
    [Type |-> "ColumnCountError",
     Format |-> <<"Operation failed because soft limit on objects of type 'Column' per table was exceeded. Please reduce number of 'Column's or contact Snowflake support about raising the limit.">>] >>

ErrorMappings == errorsMappings

Wildcards == {".*", ".*."}

\* the phrases a message is made of: every literal of the patterns, and text
\* that is in no pattern
Phrases ==
    (UNION { {errorsMappings[i].Format[k] : k \in DOMAIN errorsMappings[i].Format} :
                i \in DOMAIN errorsMappings } \ Wildcards) \cup {"context deadline exceeded"}

Messages == UNION { [1..n -> Phrases] : n \in 1..MaxPhrases }

\* elements i.. of the pattern match the message from phrase k on
RECURSIVE MatchFrom(_, _, _, _)
MatchFrom(format, i, msg, k) ==
    IF i > Len(format) THEN TRUE
    ELSE IF format[i] = ".*"
         THEN \E k2 \in k..(Len(msg) + 1) : MatchFrom(format, i + 1, msg, k2)
    ELSE IF format[i] = ".*."
         THEN \E k2 \in (k + 1)..(Len(msg) + 1) : MatchFrom(format, i + 1, msg, k2)
    ELSE k <= Len(msg) /\ msg[k] = format[i] /\ MatchFrom(format, i + 1, msg, k + 1)

\* Format.MatchString(msg): the pattern matches somewhere in the message
MatchString(format, msg) == \E k \in 1..(Len(msg) + 1) : MatchFrom(format, 1, msg, k)

\* classification that lets the last matching pattern win
classifyLastMatch(patterns, msg) ==
    LET hits == {i \in DOMAIN patterns : MatchString(patterns[i].Format, msg)}
    IN  IF hits = {} THEN "Unclassified"
        ELSE patterns[CHOOSE i \in hits : \A j \in hits : j <= i].Type

\* classify(rawMessage): the kind of the first pattern that matches, in
\* declaration order, Unclassified when none does
classify(patterns, msg) ==
    LET hits == {i \in DOMAIN patterns : MatchString(patterns[i].Format, msg)}
    IN  IF hits = {} THEN "Unclassified"
        ELSE patterns[CHOOSE i \in hits : \A j \in hits : i <= j].Type

ClassifyIdle ==
    /\ rawMessage = <<>>
    /\ errorKind = "none"

ClassifyStart ==
    /\ rawMessage \in Messages
    /\ errorKind = "none"

Classify ==
    /\ errorKind = "none"
    /\ errorKind' = classify(ErrorMappings, rawMessage)
    /\ UNCHANGED rawMessage
    /\ UNCHANGED otherThanClassify

----------------------------------------------------------------------------
(* SpecLoad: loadTable, one step at a time *)

\* the tables a call may be made for
LoadTableNames == {"TRACKS", "PAGES", "SCREENS", "IDENTIFIES", "ALIASES", discardsTable}

\* who calls loadTable: the public LoadTable (skipClosingDBSession = false) or
\* loadUserTables for the identifies table (skipClosingDBSession = true)
LoadCallers == {"LoadTable", "loadUserTables"}

\* what a step can answer: no error, or an error
StepAnswers == {Nil} \cup Causes

\* where loadTable goes after a step at position pc answered err: on to the
\* next statement, or out through the error return
NextPcIgnoringError(pc, err) ==
    CASE pc = "started" -> "connected"
      [] pc = "connected" -> "staged"
      [] pc = "staged" -> "located"
      [] pc = "located" -> "copied"
      [] OTHER -> "returned"
NextPc(pc, err) ==
    IF ~err.isNil THEN "returned"
    ELSE CASE pc = "started" -> "connected"
           [] pc = "connected" -> "staged"
           [] pc = "staged" -> "located"
           [] pc = "located" -> "copied"
           [] OTHER -> "returned"

\* the deferred db.Close() runs when the function returns; the temporary
\* staging table lives in the session and goes with it
ConnAtReturn(pc) ==
    IF pc = "returned" /\ dbConn = "open" /\ DeferredClose(loadArgs.skipClosingDBSession)
    THEN "closed" ELSE dbConn

\* the error the call returns once a step answered err: fmt.Errorf("<prefix>: %w", err)
RetAfter(prefix, err) ==
    IF err.isNil THEN loadRet ELSE Errorf(prefix, Raw(err))

\* a step on the open connection: issued, answered, and on an error the return
StepOnConn(pc, step, prefix, err) ==
    /\ loadPc = pc
    /\ steps' = Append(steps, step)
    /\ loadPc' = NextPc(pc, err)
    /\ loadRet' = RetAfter(prefix, err)
    /\ dbConn' = ConnAtReturn(NextPc(pc, err))
    /\ UNCHANGED loadArgs
    /\ UNCHANGED otherThanLoad

LoadIdle ==
    /\ loadPc = "idle"
    /\ loadArgs = [tableName |-> tracksTable, caller |-> "LoadTable",
                   skipClosingDBSession |-> FALSE]
    /\ steps = <<>>
    /\ dbConn = "none"
    /\ stagingTable = FALSE
    /\ loadRet = NoError

LoadStart == LoadIdle

\* LoadTable(tableName) or loadUserTables calls loadTable
LoadTableCalled ==
    /\ loadPc \in {"idle", "returned"}
    /\ \E tbl \in LoadTableNames, caller \in LoadCallers :
          loadArgs' = [tableName |-> tbl, caller |-> caller,
                       skipClosingDBSession |-> (caller = "loadUserTables")]
    /\ loadPc' = "started"
    /\ steps' = <<>>
    /\ dbConn' = "none"
    /\ stagingTable' = FALSE
    /\ loadRet' = NoError
    /\ UNCHANGED otherThanLoad

\* db, err = sf.connect(...)
LoadConnect ==
    /\ loadPc = "started"
    /\ \E err \in StepAnswers :
          /\ steps' = Append(steps, "connect")
          /\ loadPc' = NextPc("started", err)
          /\ loadRet' = RetAfter("connect", err)
          /\ dbConn' = IF err.isNil THEN "open" ELSE dbConn
    /\ UNCHANGED <<loadArgs, stagingTable>>
    /\ UNCHANGED otherThanLoad

\* CREATE TEMPORARY TABLE staging LIKE target
LoadCreateTemporaryTable ==
    /\ \E err \in StepAnswers :
          /\ StepOnConn("connected", "create temporary table", "create temporary table", err)
          /\ stagingTable' = (err.isNil /\ ConnAtReturn(NextPc("connected", err)) = "open")

\* sf.Uploader.GetSampleLoadFileLocation(ctx, tableName)
LoadGetSampleLoadFileLocation ==
    /\ \E err \in StepAnswers :
          /\ StepOnConn("staged", "getting sample load file location",
                        "getting sample load file location", err)
          /\ stagingTable' = (ConnAtReturn(NextPc("staged", err)) = "open")

\* COPY INTO staging
LoadCopyInto ==
    /\ \E err \in StepAnswers :
          /\ StepOnConn("located", "copy into table", "copy into table", err)
          /\ stagingTable' = (ConnAtReturn(NextPc("located", err)) = "open")

\* MERGE INTO target: QueryRowContext, row.Err(), row.Scan, and the return
LoadMergeInto ==
    /\ \E rowErr \in StepAnswers, scanErr \in StepAnswers :
          /\ StepOnConn("copied", "merge into table",
                        IF ~rowErr.isNil THEN "merge into table"
                        ELSE "getting rows affected for dedup",
                        IF ~rowErr.isNil THEN rowErr ELSE scanErr)
          /\ stagingTable' = (ConnAtReturn("returned") = "open")

----------------------------------------------------------------------------
(* SpecStats: pending-job accounting per destination type *)

\* most uploads in the uploads table
MaxUploads == 2

DestTypes == {"POSTGRES", "SNOWFLAKE"}
\* the destinations and namespaces uploads are for: two namespaces of one
\* destination, and one of them under a second destination
Destinations ==
    {<<"test-destinationID", "test-namespace">>,
     <<"test-destinationID", "other-namespace">>,
     <<"other-destinationID", "test-namespace">>}
\* an upload is pending until it is exported
UploadStatuses == {"waiting", "exported_data"}
PendingStatuses == {"waiting"}

Upload ==
    {[destination_type |-> t, destination_id |-> d[1], namespace |-> d[2], status |-> st] :
        t \in DestTypes, d \in Destinations, st \in UploadStatuses}

\* the identifier of the skip-list: destinationID_namespace
IdentifierOfNamespace(u) == u.namespace
Identifier(u) == u.destination_id \o "_" \o u.namespace

Identifiers == {Identifier(u) : u \in Upload}

RECURSIVE SeqsUpTo(_, _)
SeqsUpTo(S, n) ==
    IF n = 0 THEN {<<>>}
    ELSE LET shorter == SeqsUpTo(S, n - 1)
         IN  shorter \cup {Append(q, x) : q \in shorter, x \in S}

\* UploadJobsStats: the pending uploads of the destination type, the
\* in-progress namespaces of SkipIdentifiers excluded
UploadJobsStats(ups, destType, SkipIdentifiers) ==
    [PendingJobs |->
        Cardinality({i \in DOMAIN ups :
            /\ ups[i].destination_type = destType
            /\ ups[i].status \in PendingStatuses
            /\ Identifier(ups[i]) \notin SkipIdentifiers})]

NoStats == [destType |-> "none", SkipIdentifiers |-> {}, PendingJobs |-> 0]

StatsIdle ==
    /\ uploads = <<>>
    /\ jobStats = NoStats
    /\ gauges = <<>>

StatsStart ==
    /\ uploads \in SeqsUpTo(Upload, MaxUploads)
    /\ jobStats = NoStats
    /\ gauges = <<>>

\* UploadJobsStats for a destination type, then processingStats reports the
\* count as the gauge wh_processing_pending_jobs of that type
ProcessingStats ==
    /\ \E destType \in DestTypes \cup {"unknown-destination"},
          SkipIdentifiers \in SUBSET Identifiers :
          LET st == UploadJobsStats(uploads, destType, SkipIdentifiers)
          IN  /\ jobStats' = [destType |-> destType, SkipIdentifiers |-> SkipIdentifiers,
                              PendingJobs |-> st.PendingJobs]
              /\ gauges' = <<destType, st.PendingJobs>>
    /\ UNCHANGED uploads
    /\ UNCHANGED otherThanStats

----------------------------------------------------------------------------
(* SpecSuppress: what each operation returns for the error of a statement *)

\* DropTable: DROP TABLE on sf.DB; the error of the statement is returned as it is
DropTableRunIgnoringExists(cat, tbl, err) ==
    Done(IF checkAndIgnoreAlreadyExistError(err) THEN Nil ELSE err, err, TRUE,
         IF err.isNil THEN [t \in DOMAIN cat \ {tbl} |-> cat[t]] ELSE cat, <<"DROP TABLE">>)
DropTableRun(cat, tbl, err) ==
    Done(err, err, TRUE,
         IF err.isNil THEN [t \in DOMAIN cat \ {tbl} |-> cat[t]] ELSE cat, <<"DROP TABLE">>)

\* the catalogs the schema calls are made on: no table, or the table with some columns
TableCatalogs == {<<>>} \cup {Put(<<>>, tracksTable, TableColumns(l)) : l \in ColumnLists}

\* the SQL of the statements a load operation issued
Kinds(st) == [i \in DOMAIN st |-> st[i].sql]

Answered(op, statement, columns, err) ==
    [op |-> op, statement |-> statement, columns |-> columns, backend |-> err]

NoneAnswered == Answered("none", "", <<>>, Nil)
NoneReturned == [cause |-> Nil, issued |-> <<>>]

SuppressIdle ==
    /\ answered = NoneAnswered
    /\ returned = NoneReturned

SuppressStart == SuppressIdle

\* a schema call with outcome o
SchemaCallReturns(op, columns, o) ==
    /\ answered' = Answered(op, o.issued[Len(o.issued)], columns, o.backend)
    /\ returned' = [cause |-> o.err, issued |-> o.issued]

\* a load operation whose statement (or step) answered err, with outcome o
LoadReturns(op, statement, err, o) ==
    /\ answered' = Answered(op, statement, <<>>, err)
    /\ returned' = [cause |-> o.ret.cause, issued |-> Kinds(o.stmts)]

AddColumnsAnswered ==
    /\ \E cat \in TableCatalogs, columnsInfo \in ColumnLists, answer \in ExecAnswers :
          SchemaCallReturns("AddColumns", columnsInfo,
                            AddColumnsRun(TRUE, cat, tracksTable, columnsInfo, answer))
    /\ UNCHANGED otherThanSuppress

CreateTableAnswered ==
    /\ \E ns \in BOOLEAN, cat \in TableCatalogs, columns \in ColumnLists,
          answer \in ExecAnswers :
          SchemaCallReturns("CreateTable", columns,
                            CreateTableRun(ns, IF ns THEN cat ELSE <<>>, tracksTable,
                                           columns, answer))
    /\ UNCHANGED otherThanSuppress

DropTableAnswered ==
    /\ \E cat \in TableCatalogs, err \in StepAnswers :
          SchemaCallReturns("DropTable", <<>>, DropTableRun(cat, tracksTable, err))
    /\ UNCHANGED otherThanSuppress

LoadTableAnswered ==
    /\ \E fail \in LoadTableFailures \ {"none"}, skip \in BOOLEAN, err \in Causes :
          LoadReturns("loadTable", fail, err,
                      loadTable(tracksTable, skip, FALSE, fail, err, 1))
    /\ UNCHANGED otherThanSuppress

LoadUserTablesAnswered ==
    /\ \E err \in Causes :
       \E fails \in ((LoadTableFailures \ {"none"}) \X {"none"})
                     \cup ({"none"} \X (UsersFailures \ {"none"})) :
          LoadReturns("loadUserTables",
                      IF fails[1] # "none" THEN fails[1] ELSE fails[2], err,
                      loadUserTables(TRUE, FALSE, fails[1], fails[2], err, 1))
    /\ UNCHANGED otherThanSuppress

LoadIdentityMergeRulesTableAnswered ==
    /\ \E fail \in MergeRulesFailures \ {"none"}, err \in Causes :
          LoadReturns("LoadIdentityMergeRulesTable", fail, err,
                      LoadIdentityMergeRulesTableRun(FALSE, fail, err, 1))
    /\ UNCHANGED otherThanSuppress

\* either the autoincrement ALTER answers an error and the other statements
\* succeed, or another statement fails
LoadIdentityMappingsTableAnswered ==
    /\ \/ \E alter \in Causes :
             LoadReturns("LoadIdentityMappingsTable", "ALTER TABLE ADD COLUMN", alter,
                         LoadIdentityMappingsTableRun(FALSE, "none", Nil, alter, 1))
       \/ \E fail \in MappingsFailures \ {"none"}, err \in Causes :
             LoadReturns("LoadIdentityMappingsTable", fail, err,
                         LoadIdentityMappingsTableRun(FALSE, fail, err, Nil, 1))
    /\ UNCHANGED otherThanSuppress

----------------------------------------------------------------------------
(* SpecStaging: the column sets of the staging tables the loads create *)

\* the columns the users and identifies tables may have besides their keys
TraitColumns == {"NAME", "EMAIL"}

\* the targets of the loads that create staging tables
StagingTargets == {tracksTable, identifiesTable, usersTable, identityMappingsTable}

\* the target a staging table was created for
TargetOf(stg) == CHOOSE t \in StagingTargets : StagingTableName(t) = stg

\* CREATE TEMPORARY TABLE staging LIKE target: the columns of the target
Like(t) == tables[t]

\* the columns of CREATE TEMPORARY TABLE staging AS SELECT "ID", <first values of
\* the columns of userColMap other than ID>
UsersStagingColumnsWithUserID(userColMap) == {"ID", "USER_ID"} \cup userColMap
UsersStagingColumns(userColMap) == {"ID"} \cup (userColMap \ {"ID"})

\* the columns the users staging statement reads from the users table
UsersColumnsRead(userColMap) == {"ID"} \cup (userColMap \ {"ID"})

StagingIdle ==
    /\ tables = <<>>
    /\ temp = <<>>

\* the targets exist, the mappings table with or without a column "ID" of its own
StagingStart ==
    /\ \E tracks \in SUBSET {"EVENT"}, identifies \in SUBSET TraitColumns,
          users \in SUBSET TraitColumns, mappingsID \in SUBSET {"ID"} :
          tables = [t \in StagingTargets |->
                      CASE t = tracksTable -> {"ID", "RECEIVED_AT"} \cup tracks
                        [] t = identifiesTable ->
                              {"ID", "USER_ID", "RECEIVED_AT"} \cup identifies
                        [] t = usersTable -> {"ID", "RECEIVED_AT"} \cup users
                        [] OTHER -> MappingColumns \cup mappingsID]
    /\ temp = <<>>

\* loadTable: CREATE TEMPORARY TABLE staging LIKE target (nothing created on an error)
LoadTableCreatesStaging ==
    /\ \E tbl \in {tracksTable, identifiesTable}, err \in StepAnswers :
          temp' = IF err.isNil THEN Put(temp, StagingTableName(tbl), Like(tbl)) ELSE temp
    /\ UNCHANGED tables
    /\ UNCHANGED otherThanStaging

\* loadUserTables, after loadTable(identifies) left its staging table: the users
\* staging table from the columns of GetTableSchemaInWarehouse(users); the
\* statement fails when it reads a column the users table does not have
LoadUserTablesCreatesStaging ==
    /\ StagingTableName(identifiesTable) \in DOMAIN temp
    /\ \E userColMap \in SUBSET ({"ID", "RECEIVED_AT"} \cup TraitColumns), err \in StepAnswers :
          temp' = IF err.isNil /\ UsersColumnsRead(userColMap) \subseteq tables[usersTable]
                  THEN Put(temp, StagingTableName(usersTable),
                           UsersStagingColumns(userColMap))
                  ELSE temp
    /\ UNCHANGED tables
    /\ UNCHANGED otherThanStaging

\* LoadIdentityMappingsTable: CREATE TEMPORARY TABLE staging LIKE target
LoadIdentityMappingsCreatesStaging ==
    /\ \E err \in StepAnswers :
          temp' = IF err.isNil
                  THEN Put(temp, StagingTableName(identityMappingsTable),
                           Like(identityMappingsTable))
                  ELSE temp
    /\ UNCHANGED tables
    /\ UNCHANGED otherThanStaging

\* LoadIdentityMappingsTable: ALTER TABLE staging ADD COLUMN "ID" int AUTOINCREMENT;
\* the backend answers already-exists when the staging table has the column
LoadIdentityMappingsAddsID ==
    /\ StagingTableName(identityMappingsTable) \in DOMAIN temp
    /\ \E err \in StepAnswers :
          LET stg == StagingTableName(identityMappingsTable)
          IN  temp' = IF err.isNil /\ "ID" \notin temp[stg]
                      THEN Put(temp, stg, temp[stg] \cup {"ID"})
                      ELSE temp
    /\ UNCHANGED tables
    /\ UNCHANGED otherThanStaging

\* a load's connection is closed: its temporary tables go with the session
StagingSessionClosed ==
    /\ temp # <<>>
    /\ \E stg \in DOMAIN temp : temp' = [s \in DOMAIN temp \ {stg} |-> temp[s]]
    /\ UNCHANGED tables
    /\ UNCHANGED otherThanStaging

----------------------------------------------------------------------------
(* SpecUsers: loadUserTables, the users staging table and the users merge *)

\* longest identifies batch
MaxIdentifies == 2

\* the columns of userColMap other than "ID", and those the identifies schema has too
UserColNames == {"RECEIVED_AT", "NAME", "EMAIL"}
IdentifiesColumns == {"RECEIVED_AT", "NAME"}

UserRow == [ID : {1, 2}, RECEIVED_AT : {1, 2, 3}, NAME : {NULL, 1, 2}, EMAIL : {NULL, 1}]
IdentifyRow == [USER_ID : {NULL, 1}, RECEIVED_AT : {1, 3}, NAME : {NULL, 1, 2}]

\* a user the batch does not name
OtherUser == [ID |-> 2, RECEIVED_AT |-> 1, NAME |-> 1, EMAIL |-> NULL]

\* the users tables a call starts on: the other user, and user 1 or not
UsersTables ==
    {{OtherUser}} \cup
    {{OtherUser, u} : u \in {r \in UserRow : r.ID = 1 /\ r.RECEIVED_AT = 2}}

RECURSIVE BatchesUpTo(_, _)
BatchesUpTo(S, n) ==
    IF n = 0 THEN {<<>>}
    ELSE LET shorter == BatchesUpTo(S, n - 1)
         IN  shorter \cup {Append(q, x) : q \in shorter, x \in S}

\* identifyColNames: the column of the identifies table, or NULL as the column
IdentifyValue(r, c) == IF c \in IdentifiesColumns THEN r[c] ELSE NULL

\* the UNION of the users rows the batch names and the batch's rows with a USER_ID
UnionRows(users, batch) ==
    LET ids == {batch[i].USER_ID : i \in DOMAIN batch} \ {NULL}
    IN  {u \in users : u.ID \in ids}
        \cup {[c \in {"ID"} \cup UserColNames |->
                 IF c = "ID" THEN batch[i].USER_ID ELSE IdentifyValue(batch[i], c)] :
              i \in {j \in DOMAIN batch : batch[j].USER_ID # NULL}}

\* FIRST_VALUE(c IGNORE NULLS) OVER (PARTITION BY ID ORDER BY RECEIVED_AT DESC):
\* the values it can produce for the partition of id (ties are in any order)
FirstValuesOfLatestRow(rows, id, c) ==
    LET part == {r \in rows : r.ID = id}
    IN  {r[c] : r \in {x \in part : \A y \in part : y.RECEIVED_AT <= x.RECEIVED_AT}}
FirstValues(rows, id, c) ==
    LET nn == {r \in rows : r.ID = id /\ r[c] # NULL}
    IN  IF nn = {} THEN {NULL}
        ELSE {r[c] : r \in {x \in nn : \A y \in nn : y.RECEIVED_AT <= x.RECEIVED_AT}}

\* the users staging tables CREATE TEMPORARY TABLE ... AS (SELECT DISTINCT ...) can produce
UsersStagingTables(users, batch) ==
    LET rows == UnionRows(users, batch)
        ids == {r.ID : r \in rows}
        RowsOf(id) == {r \in UserRow :
                          /\ r.ID = id
                          /\ \A c \in UserColNames : r[c] \in FirstValues(rows, id, c)}
    IN  {{f[id] : id \in ids} : f \in {g \in [ids -> UserRow] : \A id \in ids : g[id] \in RowsOf(id)}}

\* WHEN MATCHED THEN UPDATE SET original.c = staging.c for "ID" and every userColNames
UsersUpdatedRowKeepingOld(old, s) == old
UsersUpdatedRow(old, s) ==
    [c \in DOMAIN old |-> IF c \in {"ID"} \cup UserColNames THEN s[c] ELSE old[c]]

\* MERGE INTO users USING staging ON original.ID = staging.ID
MergeIntoUsers(users, stg) ==
    [rows |-> {IF \E s \in stg : s.ID = u.ID
               THEN UsersUpdatedRow(u, CHOOSE s \in stg : s.ID = u.ID) ELSE u : u \in users}
              \cup {s \in stg : \A u \in users : u.ID # s.ID},
     inserted |-> Cardinality({s \in stg : \A u \in users : u.ID # s.ID}),
     updated |-> Cardinality({u \in users : \E s \in stg : s.ID = u.ID})]

\* the map loadUserTables returns
UsersResultBothTables(hasUsersSchema, failIdentifies, o) ==
    (identifiesTable :> o.ret) @@ (usersTable :> o.ret)
UsersResult(hasUsersSchema, failIdentifies, o) ==
    IF failIdentifies # "none" THEN (identifiesTable :> o.ret)
    ELSE IF ~hasUsersSchema THEN (identifiesTable :> NoError)
    ELSE (identifiesTable :> NoError) @@ (usersTable :> o.ret)

\* the statements of an outcome issued after those of the identifies load
UsersStatements(o) ==
    LET n == Len(loadTable(identifiesTable, TRUE, FALSE, "none", Nil, 1).stmts)
    IN  [i \in 1..(Len(o.stmts) - n) |->
            [sql |-> o.stmts[i + n].sql, table |-> usersTable]]

UsersIdle ==
    /\ usersRows = {}
    /\ usersBefore = {}
    /\ identifiesStaged = <<>>
    /\ usersStaged = {}
    /\ usersPolicy = FALSE
    /\ usersResult = <<>>
    /\ usersStmts = <<>>
    /\ usersPc = "idle"

UsersStart ==
    /\ usersRows \in UsersTables
    /\ usersBefore = usersRows
    /\ identifiesStaged \in BatchesUpTo(IdentifyRow, MaxIdentifies)
    /\ usersStaged = {}
    /\ usersPolicy \in BOOLEAN
    /\ usersResult = <<>>
    /\ usersStmts = <<>>
    /\ usersPc = "idle"

\* the frame of a call that returned with outcome o
UsersReturned(hasUsersSchema, failIdentifies, o) ==
    /\ usersResult' = UsersResult(hasUsersSchema, failIdentifies, o)
    /\ usersStmts' = UsersStatements(o)
    /\ usersPc' = "returned"
    /\ UNCHANGED <<usersBefore, identifiesStaged, usersPolicy>>
    /\ UNCHANGED otherThanUsers

\* the identifies load fails: the error of identifies, nothing else
LoadUserTablesIdentifiesFails ==
    /\ usersPc = "idle"
    /\ \E fail \in {"connect", "merge into table"}, cause \in Causes,
          hasUsersSchema \in BOOLEAN :
          UsersReturned(hasUsersSchema, fail,
                        loadUserTables(hasUsersSchema, FALSE, fail, "none", cause, 1))
    /\ UNCHANGED <<usersRows, usersStaged>>

\* len(usersSchema) == 0: nil for identifies, nothing else
LoadUserTablesNoUsersSchema ==
    /\ usersPc = "idle"
    /\ UsersReturned(FALSE, "none", loadUserTables(FALSE, FALSE, "none", "none", Nil, 1))
    /\ UNCHANGED <<usersRows, usersStaged>>

\* the users staging statement fails: no staging table, the users table as it was
LoadUserTablesStagingFails ==
    /\ usersPc = "idle"
    /\ \E cause \in Causes :
          UsersReturned(TRUE, "none",
                        loadUserTables(TRUE, FALSE, "none",
                                       "creating staging table for users", cause, 1))
    /\ UNCHANGED <<usersRows, usersStaged>>

\* the users MERGE fails: the users table as it was
LoadUserTablesMergeFails ==
    /\ usersPc = "idle"
    /\ \E cause \in Causes :
          UsersReturned(TRUE, "none",
                        loadUserTables(TRUE, FALSE, "none", "running deduplication", cause, 1))
    /\ usersStaged' \in UsersStagingTables(usersRows, identifiesStaged)
    /\ UNCHANGED usersRows

\* the users MERGE ran; the call returns nil for both tables, or the error of
\* reading the counts of the merge
LoadUserTablesMerges ==
    /\ usersPc = "idle"
    /\ \E failUsers \in {"none", "getting rows affected for dedup"}, cause \in Causes :
          UsersReturned(TRUE, "none",
                        loadUserTables(TRUE, FALSE, "none", failUsers, cause, 1))
    /\ usersStaged' \in UsersStagingTables(usersRows, identifiesStaged)
    /\ usersRows' = MergeIntoUsers(usersRows, usersStaged').rows

----------------------------------------------------------------------------
(* IsEmpty over every namespace (SpecEmpty)                                *)
(* snowflake.go, IsEmpty (lines 1181-1215): the five event tables are      *)
(* looked at in a fixed order, each in any of the states the existence     *)
(* check and the count can find it in.                                     *)

\* every namespace: one state for each of the five tables
AllNamespaces == [DOMAIN EventTables -> TableStates]

EmptyIdle ==
    /\ emptyCall = <<>>
    /\ emptyRet = <<>>

EmptyStart ==
    /\ emptyCall \in [ns : AllNamespaces, ok : BOOLEAN]
    /\ emptyRet = <<>>

\* IsEmpty when sf.connect fails: if err != nil { return } with empty = true
IsEmptyConnectFails ==
    /\ emptyCall # <<>>
    /\ emptyRet = <<>>
    /\ ~emptyCall.ok
    /\ LET res == IsEmptyRun(emptyCall.ns, emptyCall.ok, NewConn)
       IN  emptyRet' = [empty |-> res.empty, err |-> res.ret]
    /\ UNCHANGED emptyCall
    /\ UNCHANGED otherThanEmpty

\* IsEmpty when sf.connect succeeds: the loop over the five tables
IsEmptyLooksAtTables ==
    /\ emptyCall # <<>>
    /\ emptyRet = <<>>
    /\ emptyCall.ok
    /\ LET res == IsEmptyRun(emptyCall.ns, emptyCall.ok, NewConn)
       IN  emptyRet' = [empty |-> res.empty, err |-> res.ret]
    /\ UNCHANGED emptyCall
    /\ UNCHANGED otherThanEmpty

----------------------------------------------------------------------------
(* Building the MERGE statement of loadTable (SpecBuild)                   *)
(* snowflake.go, loadTable (lines 296-536): the column lists are built     *)
(* from the sorted column names of the upload schema, whatever their       *)
(* number.                                                                 *)

\* the tables loaded here
BuildTables == {tracksTable, identifiesTable, discardsTable}

\* the upload schemas of a table: any set of its columns, the empty one included
AnyUploadSchema(t) == SUBSET Columns(t)

\* the steps of loadTable before the MERGE statement is built
StepsBeforeMerge ==
    {"connect", "create temporary table", "getting sample load file location",
     "copy into table"}

\* dummyColumnWithValues := fmt.Sprintf(..., strKeys[0]): the first column name;
\* indexing an empty slice panics (index out of range [0] with length 0)
dummyColumnWithValues(keys) ==
    IF Len(keys) = 0
    THEN [panic |-> TRUE, column |-> ""]
    ELSE [panic |-> FALSE, column |-> keys[1]]

\* the MERGE statement loadTable builds: its INSERT column list and its
\* UPDATE SET list (every column under prefer-latest, the dummy one otherwise)
MergeStatement(keys, keepLatest) ==
    IF keepLatest
    THEN [panic |-> FALSE, insert |-> keys, set |-> keys]
    ELSE LET d == dummyColumnWithValues(keys)
         IN  [panic |-> d.panic, insert |-> keys,
              set |-> IF d.panic THEN <<>> ELSE <<d.column>>]

BuildIdle ==
    /\ buildCall = <<>>
    /\ buildPc = "idle"
    /\ buildRet = "none"

BuildStart ==
    /\ buildCall \in UNION { [table : {t}, schema : AnyUploadSchema(t), keepLatest : BOOLEAN] :
                               t \in BuildTables }
    /\ buildPc = "called"
    /\ buildRet = "none"

\* connect, CREATE TEMPORARY TABLE, the load file location or COPY INTO fails:
\* loadTable returns the wrapped error
BuildFailsEarly ==
    /\ buildPc = "called"
    /\ \E step \in StepsBeforeMerge : buildRet' = step
    /\ buildPc' = "returned"
    /\ UNCHANGED buildCall
    /\ UNCHANGED otherThanBuild

\* the steps up to COPY INTO succeed
BuildCopied ==
    /\ buildPc = "called"
    /\ buildPc' = "copied"
    /\ UNCHANGED <<buildCall, buildRet>>
    /\ UNCHANGED otherThanBuild

\* the MERGE statement is built from strKeys and the policy
BuildMergeStatement ==
    /\ buildPc = "copied"
    /\ LET m == MergeStatement(SortStrings(buildCall.schema), buildCall.keepLatest)
       IN  buildPc' = IF m.panic THEN "aborted" ELSE "built"
    /\ UNCHANGED <<buildCall, buildRet>>
    /\ UNCHANGED otherThanBuild

\* the MERGE runs: loadTable returns its result, or "merge into table: ..."
BuildMergeRuns ==
    /\ buildPc = "built"
    /\ \E ret \in {"nil", "merge into table"} : buildRet' = ret
    /\ buildPc' = "returned"
    /\ UNCHANGED buildCall
    /\ UNCHANGED otherThanBuild

----------------------------------------------------------------------------
(* DownloadIdentityRules (SpecRules)                                       *)
(* snowflake.go, DownloadIdentityRules (lines 1082-1177): for each of five *)
(* tables, an existence check, a count, two column checks and a paging     *)
(* loop of SELECT DISTINCT ... LIMIT batchSize OFFSET offset.              *)

\* batchSize := int64(10000)
batchSize == 10000

\* most tables of the five that are not missing in one warehouse
MaxPresentTables == 2

\* tables := []string{"TRACKS", "PAGES", "SCREENS", "IDENTIFIES", "ALIASES"}
IdentityTables == <<"TRACKS", "PAGES", "SCREENS", "IDENTIFIES", "ALIASES">>

\* the row counts of a table: none, one full page, one row more, two pages and a half
RowCounts == {0, 10000, 10001, 25000}

RulesTable(kind, totalRows, hasAnonymousID, hasUserID) ==
    [kind |-> kind, totalRows |-> totalRows,
     hasAnonymousID |-> hasAnonymousID, hasUserID |-> hasUserID]

MissingTable == RulesTable("missing", 0, FALSE, FALSE)

\* what getFromTable can find for a table: it is missing, one of the checks
\* before the loop fails, or it is there with some rows and columns
RulesTableStates ==
    {MissingTable}
    \cup {RulesTable(k, 0, FALSE, FALSE) : k \in {"exists error", "count error", "column error"}}
    \cup {RulesTable("present", n, TRUE, TRUE) : n \in RowCounts}
    \cup {RulesTable("present", 10001, a, u) :
            <<a, u>> \in {<<TRUE, FALSE>>, <<FALSE, TRUE>>, <<FALSE, FALSE>>}}

RulesWarehouses ==
    {w \in [DOMAIN IdentityTables -> RulesTableStates] :
        Cardinality({i \in DOMAIN w : w[i] # MissingTable}) <= MaxPresentTables}

\* toSelectFields: the columns the page query selects, "" when the table has
\* neither ANONYMOUS_ID nor USER_ID (getFromTable then returns nil)
toSelectFields(hasAnonymousID, hasUserID) ==
    CASE hasAnonymousID /\ hasUserID -> "ANONYMOUS_ID, USER_ID"
      [] hasAnonymousID -> "ANONYMOUS_ID, NULL AS USER_ID"
      [] hasUserID -> "NULL AS ANONYMOUS_ID, USER_ID"
      [] OTHER -> ""

\* getFromTable before its loop: "skip" (return nil), "page" (enter the loop)
\* or the error it returns
BeforePaging(t) ==
    CASE t.kind = "missing" -> "skip"
      [] t.kind \in {"exists error", "count error", "column error"} -> t.kind
      [] toSelectFields(t.hasAnonymousID, t.hasUserID) = "" -> "skip"
      [] OTHER -> "page"

\* how one page can end: read to its end, or QueryContext, rows.Scan or
\* rows.Err() fails
PageAnswers == {"ok", "query error", "scan error", "rows.Err"}

\* (mutant) the loop left only once the offset is past the count
LastPagePastCount(offset, totalRows) == offset > totalRows

\* if offset >= totalRows { break }
LastPage(offset, totalRows) == offset >= totalRows

\* the state after getFromTable returned nil for table i: the next table, or
\* return nil after the last one
AfterTable(i) ==
    /\ rulesTable' = i + 1
    /\ rulesPaging' = FALSE
    /\ rulesOffset' = 0
    /\ rulesErr' = IF i = Len(IdentityTables) THEN "nil" ELSE "none"

RulesIdle ==
    /\ warehouseTables = <<>>
    /\ rulesTable = 0
    /\ rulesPaging = FALSE
    /\ rulesOffset = 0
    /\ pageQueries = <<>>
    /\ rulesErr = "none"

RulesStart ==
    /\ warehouseTables \in RulesWarehouses
    /\ rulesTable = 1
    /\ rulesPaging = FALSE
    /\ rulesOffset = 0
    /\ pageQueries = <<>>
    /\ rulesErr = "none"

\* getFromTable(table) up to its loop: tableExists, the count, columnExists twice
GetFromTable ==
    /\ rulesErr = "none"
    /\ ~rulesPaging
    /\ rulesTable \in DOMAIN IdentityTables
    /\ LET b == BeforePaging(warehouseTables[rulesTable])
       IN  CASE b = "skip" -> AfterTable(rulesTable)
             [] b = "page" -> /\ rulesPaging' = TRUE
                              /\ rulesOffset' = 0
                              /\ UNCHANGED <<rulesTable, rulesErr>>
             [] OTHER -> /\ rulesErr' = b
                         /\ UNCHANGED <<rulesTable, rulesPaging, rulesOffset>>
    /\ UNCHANGED <<warehouseTables, pageQueries>>
    /\ UNCHANGED otherThanRules

\* one pass of the loop: the page query at the offset, its rows, then
\* offset += batchSize and the exit test
PageQuery ==
    /\ rulesErr = "none"
    /\ rulesPaging
    /\ pageQueries' = Append(pageQueries, [table |-> rulesTable, offset |-> rulesOffset])
    /\ \E answer \in PageAnswers :
          IF answer # "ok"
          THEN /\ rulesErr' = answer
               /\ UNCHANGED <<rulesTable, rulesPaging, rulesOffset>>
          ELSE IF LastPage(rulesOffset + batchSize, warehouseTables[rulesTable].totalRows)
               THEN AfterTable(rulesTable)
               ELSE /\ rulesOffset' = rulesOffset + batchSize
                    /\ UNCHANGED <<rulesTable, rulesPaging, rulesErr>>
    /\ UNCHANGED warehouseTables
    /\ UNCHANGED otherThanRules

----------------------------------------------------------------------------
(* DeleteBy (SpecDelete)                                                   *)
(* snowflake.go, DeleteBy (lines 262-294) and the setting New reads        *)
(* (line 169): one DELETE per table of the list, executed only when        *)
(* delete-by-jobs is enabled.                                              *)

\* longest table list of a DeleteBy call
MaxDeleteTables == 3

DeleteTableNames == {"TRACKS", "PAGES", "USERS"}

DeleteTableLists == UNION { [1..n -> DeleteTableNames] : n \in 0..MaxDeleteTables }

\* how sf.DB.ExecContext can answer a DELETE
DeleteAnswers == {"nil", "exec error"}

\* (mutant) a pass of the loop that executes the DELETE whatever the setting
DeleteByPassAlways(enabled, answer) == [executes |-> TRUE, err |-> answer]

\* one pass of the loop for a table: whether the DELETE is executed and the
\* error of the pass (if sf.config.enableDeleteByJobs { _, err = ExecContext })
DeleteByPass(enabled, answer) ==
    IF enabled THEN [executes |-> TRUE, err |-> answer]
    ELSE [executes |-> FALSE, err |-> "nil"]

DeleteIdle ==
    /\ enableDeleteByJobs = FALSE
    /\ deleteTables = <<>>
    /\ deletePos = 0
    /\ deleted = <<>>
    /\ deleteRet = "none"

\* New has read the setting and DeleteBy has been called with a table list
DeleteStart ==
    /\ enableDeleteByJobs \in BOOLEAN
    /\ deleteTables \in DeleteTableLists
    /\ deletePos = 1
    /\ deleted = <<>>
    /\ deleteRet = "none"

\* for _, tb := range tableNames: the statement is built and logged, and
\* executed if the setting is on; an error of the execution is returned
DeleteByLoop ==
    /\ deleteRet = "none"
    /\ deletePos \in DOMAIN deleteTables
    /\ \E answer \in DeleteAnswers :
          LET p == DeleteByPass(enableDeleteByJobs, answer)
          IN  /\ deleted' = IF p.executes
                            THEN Append(deleted, [table |-> deleteTables[deletePos],
                                                  answer |-> answer])
                            ELSE deleted
              /\ deleteRet' = IF p.err # "nil" THEN p.err ELSE "none"
              /\ deletePos' = IF p.err # "nil" THEN deletePos ELSE deletePos + 1
    /\ UNCHANGED <<enableDeleteByJobs, deleteTables>>
    /\ UNCHANGED otherThanDelete

\* the loop is over: return nil
DeleteByReturnsNil ==
    /\ deleteRet = "none"
    /\ deletePos = Len(deleteTables) + 1
    /\ deleteRet' = "nil"
    /\ UNCHANGED <<enableDeleteByJobs, deleteTables, deletePos, deleted>>
    /\ UNCHANGED otherThanDelete

----------------------------------------------------------------------------
(* The specifications *)

\* the merge model leaves the driver's connections alone
OpsIdle ==
    /\ DB = 0
    /\ Uploader = FALSE
    /\ useTempCreds = FALSE
    /\ conns = <<>>
    /\ last = [op |-> "none", ret |-> "nil", opened |-> {}, primary |-> 0, empty |-> FALSE, ping |-> NoError]
    /\ stmts = <<>>
    /\ log = <<>>

MergeNext ==
    \/ LoadTableCopy
    \/ LoadTableFailEarly
    \/ LoadTableMerge
    \/ LoadTableMergeFails
    \/ LoadTableReturn

MergeInit ==
    MergeStart /\ OpsIdle /\ SchemaIdle /\ MappingsIdle
        /\ ClassifyIdle /\ LoadIdle /\ StatsIdle /\ SuppressIdle /\ StagingIdle /\ UsersIdle /\ EmptyIdle /\ BuildIdle /\ RulesIdle /\ DeleteIdle








SpecMerge == MergeInit /\ [][MergeNext]_vars

\* the merge variables stay where the merge model starts them
MergeIdle ==
    /\ tableName = tracksTable
    /\ target = EmptyBag
    /\ staging = <<>>
    /\ strKeys = <<>>
    /\ source = {}
    /\ before = EmptyBag
    /\ keepLatestRecordOnDedup = FALSE
    /\ inserted = 0
    /\ updated = 0
    /\ dedupRows = <<>>
    /\ mpc = "idle"
    /\ mret = "none"

OpsInit ==
    OpsStart /\ MergeIdle /\ SchemaIdle /\ MappingsIdle
        /\ ClassifyIdle /\ LoadIdle /\ StatsIdle /\ SuppressIdle /\ StagingIdle /\ UsersIdle /\ EmptyIdle /\ BuildIdle /\ RulesIdle /\ DeleteIdle








OpsNext ==
    \/ Setup
    \/ Cleanup
    \/ IsEmpty
    \/ GetTotalCountInTable
    \/ LoadTable
    \/ LoadUserTables
    \/ LoadIdentityMergeRulesTable
    \/ LoadIdentityMappingsTable
    \/ TestConnection

SpecOps == OpsInit /\ [][OpsNext]_vars

SchemaInit ==
    SchemaStart /\ MergeIdle /\ OpsIdle /\ MappingsIdle
        /\ ClassifyIdle /\ LoadIdle /\ StatsIdle /\ SuppressIdle /\ StagingIdle /\ UsersIdle /\ EmptyIdle /\ BuildIdle /\ RulesIdle /\ DeleteIdle








SchemaNext ==
    \/ CreateSchema
    \/ CreateTable
    \/ AddColumns
    \/ FetchSchema

SpecSchema == SchemaInit /\ [][SchemaNext]_vars

MappingsInit ==
    MappingsStart /\ MergeIdle /\ OpsIdle /\ SchemaIdle
        /\ ClassifyIdle /\ LoadIdle /\ StatsIdle /\ SuppressIdle /\ StagingIdle /\ UsersIdle /\ EmptyIdle /\ BuildIdle /\ RulesIdle /\ DeleteIdle








MappingsNext ==
    \/ LoadIdentityMappingsFailsEarly
    \/ LoadIdentityMappingsMergeFails
    \/ LoadIdentityMappings

SpecMappings == MappingsInit /\ [][MappingsNext]_vars

ClassifyInit ==
    ClassifyStart /\ MergeIdle /\ OpsIdle /\ SchemaIdle
        /\ MappingsIdle /\ LoadIdle /\ StatsIdle /\ SuppressIdle /\ StagingIdle /\ UsersIdle /\ EmptyIdle /\ BuildIdle /\ RulesIdle /\ DeleteIdle








ClassifyNext == Classify

SpecClassify == ClassifyInit /\ [][ClassifyNext]_vars

LoadInit ==
    LoadStart /\ MergeIdle /\ OpsIdle /\ SchemaIdle
        /\ MappingsIdle /\ ClassifyIdle /\ StatsIdle /\ SuppressIdle /\ StagingIdle /\ UsersIdle /\ EmptyIdle /\ BuildIdle /\ RulesIdle /\ DeleteIdle








LoadNext ==
    \/ LoadTableCalled
    \/ LoadConnect
    \/ LoadCreateTemporaryTable
    \/ LoadGetSampleLoadFileLocation
    \/ LoadCopyInto
    \/ LoadMergeInto

SpecLoad == LoadInit /\ [][LoadNext]_vars

StatsInit ==
    StatsStart /\ MergeIdle /\ OpsIdle /\ SchemaIdle
        /\ MappingsIdle /\ ClassifyIdle /\ LoadIdle /\ SuppressIdle /\ StagingIdle /\ UsersIdle /\ EmptyIdle /\ BuildIdle /\ RulesIdle /\ DeleteIdle








StatsNext == ProcessingStats

SpecStats == StatsInit /\ [][StatsNext]_vars

SuppressInit ==
    SuppressStart /\ MergeIdle /\ OpsIdle /\ SchemaIdle
        /\ MappingsIdle /\ ClassifyIdle /\ LoadIdle /\ StatsIdle /\ StagingIdle /\ UsersIdle /\ EmptyIdle /\ BuildIdle /\ RulesIdle /\ DeleteIdle







SuppressNext ==
    \/ AddColumnsAnswered
    \/ CreateTableAnswered
    \/ DropTableAnswered
    \/ LoadTableAnswered
    \/ LoadUserTablesAnswered
    \/ LoadIdentityMergeRulesTableAnswered
    \/ LoadIdentityMappingsTableAnswered

SpecSuppress == SuppressInit /\ [][SuppressNext]_vars

StagingInit ==
    StagingStart /\ MergeIdle /\ OpsIdle /\ SchemaIdle
        /\ MappingsIdle /\ ClassifyIdle /\ LoadIdle /\ StatsIdle /\ SuppressIdle /\ UsersIdle /\ EmptyIdle /\ BuildIdle /\ RulesIdle /\ DeleteIdle






StagingNext ==
    \/ LoadTableCreatesStaging
    \/ LoadUserTablesCreatesStaging
    \/ LoadIdentityMappingsCreatesStaging
    \/ LoadIdentityMappingsAddsID
    \/ StagingSessionClosed

SpecStaging == StagingInit /\ [][StagingNext]_vars

UsersInit ==
    UsersStart /\ MergeIdle /\ OpsIdle /\ SchemaIdle
        /\ MappingsIdle /\ ClassifyIdle /\ LoadIdle /\ StatsIdle /\ SuppressIdle /\ StagingIdle /\ EmptyIdle /\ BuildIdle /\ RulesIdle /\ DeleteIdle





UsersNext ==
    \/ LoadUserTablesIdentifiesFails
    \/ LoadUserTablesNoUsersSchema
    \/ LoadUserTablesStagingFails
    \/ LoadUserTablesMergeFails
    \/ LoadUserTablesMerges

SpecUsers == UsersInit /\ [][UsersNext]_vars

EmptyInit ==
    EmptyStart /\ MergeIdle /\ OpsIdle /\ SchemaIdle
        /\ MappingsIdle /\ ClassifyIdle /\ LoadIdle /\ StatsIdle /\ SuppressIdle /\ StagingIdle /\ UsersIdle /\ BuildIdle /\ RulesIdle /\ DeleteIdle




EmptyNext ==
    \/ IsEmptyConnectFails
    \/ IsEmptyLooksAtTables

SpecEmpty == EmptyInit /\ [][EmptyNext]_vars

BuildInit ==
    BuildStart /\ MergeIdle /\ OpsIdle /\ SchemaIdle
        /\ MappingsIdle /\ ClassifyIdle /\ LoadIdle /\ StatsIdle /\ SuppressIdle /\ StagingIdle /\ UsersIdle /\ EmptyIdle /\ RulesIdle /\ DeleteIdle



BuildNext ==
    \/ BuildFailsEarly
    \/ BuildCopied
    \/ BuildMergeStatement
    \/ BuildMergeRuns

SpecBuild == BuildInit /\ [][BuildNext]_vars

RulesInit ==
    RulesStart /\ MergeIdle /\ OpsIdle /\ SchemaIdle
        /\ MappingsIdle /\ ClassifyIdle /\ LoadIdle /\ StatsIdle /\ SuppressIdle /\ StagingIdle /\ UsersIdle /\ EmptyIdle /\ BuildIdle /\ DeleteIdle


RulesNext ==
    \/ GetFromTable
    \/ PageQuery

\* the download runs on its own goroutine and every step it can take is taken
SpecRules == RulesInit /\ [][RulesNext]_vars /\ WF_vars(RulesNext)

DeleteInit ==
    DeleteStart /\ MergeIdle /\ OpsIdle /\ SchemaIdle
        /\ MappingsIdle /\ ClassifyIdle /\ LoadIdle /\ StatsIdle /\ SuppressIdle /\ StagingIdle /\ UsersIdle /\ EmptyIdle /\ BuildIdle /\ RulesIdle

DeleteNext ==
    \/ DeleteByLoop
    \/ DeleteByReturnsNil

SpecDelete == DeleteInit /\ [][DeleteNext]_vars

----------------------------------------------------------------------------
(* Claims about the dedup merge (SpecMerge) *)

PKey == partitionKeyMap(tableName)

\* no two rows of a table share a partition key
UniqueKeys(tgt) ==
    \A r \in BagToSet(tgt) :
        /\ CopiesIn(r, tgt) = 1
        /\ \A s \in BagToSet(tgt) : SameOn(PKey, r, s) => r = s

MergeDone == mpc = "merged" /\ mret = "nil"

\* C1: after any sequence of loadTable merges of arbitrary staged batches, under
\* either policy, no two rows of the target share a partition key
\* (ID; ROW_ID + COLUMN_NAME + TABLE_NAME for the discards table).
C1_OneRowPerPartitionKey == UniqueKeys(target)

\* a merge into the discards table of a batch that repeats a key, into a target that
\* already had rows: one row updated, none doubled
C1_Witness ==
    /\ MergeDone
    /\ tableName = discardsTable
    /\ Len(staging) = 2
    /\ SameOn(PKey, staging[1], staging[2])
    /\ BagCardinality(before) = 2
    /\ updated = 1

\* C2: with prefer-latest disabled a merge changes no value of a row that already
\* exists in the target (every key present before keeps exactly its rows), and
\* merging the same staged batch again leaves the target as the first merge left it.
C2_KeepFirstPreservesValues ==
    (mpc = "merged" /\ ~keepLatestRecordOnDedup) =>
        /\ \A b \in BagToSet(before) :
              \A r \in BagToSet(before) \cup BagToSet(target) :
                  SameOn(PKey, r, b) => CopiesIn(r, target) = CopiesIn(r, before)
        /\ mret = "nil" => \A src \in RankOne(staging, PKey) :
              LET again == MergeInto(tableName, target, src, JoinColumns(tableName),
                                     strKeys, FALSE)
              IN  ~again.err /\ again.target = target /\ again.inserted = 0

\* keep-first merge of a staged row whose key exists with another EVENT value:
\* counted as one update
C2_Witness ==
    /\ MergeDone
    /\ ~keepLatestRecordOnDedup
    /\ updated = 1
    /\ tableName = tracksTable
    /\ \E s \in source : \E r \in BagToSet(before) :
          /\ SameOn(PKey, r, s)
          /\ "EVENT" \in SeqToSet(strKeys)
          /\ r["EVENT"] # s["EVENT"]

\* staged row i is the only latest row of its partition
OnlyLatest(i) ==
    \A j \in Partition(staging, PKey, staging[i]) \ {i} :
        staging[j]["RECEIVED_AT"] < staging[i]["RECEIVED_AT"]

\* C3: among the staged rows of a batch that share a partition key and differ in
\* RECEIVED_AT, exactly the one with the latest RECEIVED_AT is the row the merge
\* uses (it alone is a source row of its partition; it is what gets inserted, or
\* what a prefer-latest update writes), whatever the staging order.
C3_LatestStagedRowWins ==
    MergeDone =>
        \A i \in DOMAIN staging :
            OnlyLatest(i) =>
                /\ {s \in source : SameOn(PKey, s, staging[i])} = {staging[i]}
                /\ Matched(before, JoinColumns(tableName), staging[i]) = {} =>
                      CopiesIn(InsertedRow(tableName, strKeys, staging[i]), target) = 1
                /\ (keepLatestRecordOnDedup
                      /\ Matched(before, JoinColumns(tableName), staging[i]) # {}) =>
                      \E r \in BagToSet(target) : SameOn(SeqToSet(strKeys), r, staging[i])

\* the later row was staged first, the earlier one second, and the later one's
\* EVENT is what the target holds
C3_Witness ==
    /\ MergeDone
    /\ tableName = tracksTable
    /\ Len(staging) = 2
    /\ SameOn(PKey, staging[1], staging[2])
    /\ staging[1]["RECEIVED_AT"] > staging[2]["RECEIVED_AT"]
    /\ staging[1]["EVENT"] # staging[2]["EVENT"]
    /\ staging[1]["EVENT"] # NULL
    /\ CopiesIn(staging[1], target) = 1

\* C4 as stated: with prefer-latest enabled, a matched target row gets every one of
\* its columns from the winning staged row, and an unmatched winning staged row is
\* inserted with all its columns: either way the target then holds the staged row.
C4_AsStated ==
    (MergeDone /\ keepLatestRecordOnDedup) =>
        \A s \in source : CopiesIn(s, target) = 1

\* C4 amended: a matched target row gets the columns of the upload schema from the
\* winning staged row and keeps its other columns; an unmatched winning staged row
\* is inserted with all its columns.
C4_UploadColumnsOverwritten ==
    (MergeDone /\ keepLatestRecordOnDedup) =>
        \A s \in source :
            LET old == Matched(before, JoinColumns(tableName), s)
            IN  /\ old = {} => CopiesIn(s, target) = 1
                /\ \A r \in old :
                      /\ CopiesIn([c \in Columns(tableName) |->
                                     IF c \in SeqToSet(strKeys) THEN s[c] ELSE r[c]],
                                  target) = 1
                      /\ \A x \in BagToSet(target) :
                            SameOn(PKey, x, s) =>
                               /\ \A c \in SeqToSet(strKeys) : x[c] = s[c]
                               /\ \A c \in Columns(tableName) \ SeqToSet(strKeys) :
                                     x[c] = r[c]

\* a prefer-latest merge that updates one row and inserts another, from a batch
\* without the EVENT column, into a target whose matched row has an EVENT
C4_Witness ==
    /\ MergeDone
    /\ keepLatestRecordOnDedup
    /\ updated = 1
    /\ inserted = 1
    /\ tableName = tracksTable
    /\ "EVENT" \notin SeqToSet(strKeys)
    /\ \E s \in source : \E r \in Matched(before, JoinColumns(tableName), s) :
          r["EVENT"] # NULL /\ r["RECEIVED_AT"] # s["RECEIVED_AT"]

\* the winning staged rows whose key matches a row the target held
MatchedWinners == {s \in source : Matched(before, JoinColumns(tableName), s) # {}}

\* C13: when the merge and the read-back of its counts succeed, the updated
\* count, published once as the value of dedup_rows, is the number of winning
\* staged rows whose key matched a target row, under both policies; when
\* the merge or the read-back fails nothing is published.
C13_DedupRowsCountsMatchedWinners ==
    mpc = "merged" =>
        /\ mret = "nil" =>
              /\ updated = Cardinality(MatchedWinners)
              /\ dedupRows = <<Cardinality(MatchedWinners)>>
        /\ mret # "nil" => dedupRows = <<>>

\* a keep-first merge that matched one staged row, inserted another and
\* published 1
C13_Witness ==
    /\ mpc = "merged"
    /\ mret = "nil"
    /\ ~keepLatestRecordOnDedup
    /\ target = before (+) SetToBag({InsertedRow(tableName, strKeys, s) : s \in source \ MatchedWinners})
    /\ Cardinality(MatchedWinners) = 1
    /\ inserted = 1
    /\ dedupRows = <<1>>

----------------------------------------------------------------------------
(* Claims about connections and log entries (SpecOps) *)

LoadOperations ==
    {"LoadTable", "LoadUserTables", "LoadIdentityMergeRulesTable",
     "LoadIdentityMappingsTable"}

\* C5: every dedicated connection a load operation opened is closed (and its
\* staging table with it) by the time the operation returns, on the success path
\* and on every error return.
C5_LoadConnectionsClosedOnReturn ==
    last.op \in LoadOperations => \A h \in last.opened : conns[h] = "closed"

\* the raw temporary credential values
RawCredentials == {tempAccessKeyId, tempSecretAccessKey, token}

\* C6: no log entry of a load operation holds a generated statement with a raw
\* temporary credential: every AWS_KEY_ID, AWS_SECRET_KEY and AWS_TOKEN value of
\* a logged statement is the placeholder '***'.
C6_NoRawCredentialLogged ==
    \A i \in DOMAIN log :
        \A j \in DOMAIN log[i].query :
            /\ log[i].query[j].value \notin RawCredentials
            /\ log[i].query[j].key \in SecretPatterns => log[i].query[j].value = "***"

\* C7: IsEmpty on a driver whose Setup succeeded (the primary connection is set
\* and open) leaves sf.DB the same handle, still open.
C7_IsEmptyKeepsPrimaryConnection ==
    (last.op = "IsEmpty" /\ last.primary # 0 /\ conns[last.primary] = "open") =>
        (DB = last.primary /\ conns[DB] = "open")

\* C14: every error a load operation returns wraps the error of the failed
\* step: it carries at least one prefix, naming the step, before the
\* underlying error, which stays at the end of the chain.
C14_LoadErrorsAreWrapped ==
    (last.op \in LoadOperations /\ last.ret # NoError) =>
        /\ Len(last.ret.prefix) >= 1
        /\ last.ret.cause \in Causes

\* C17: TestConnection returns nil when the ping succeeds, an error marked
\* "connection timeout" when the ping failed with the context's deadline
\* error (as it is or wrapped), and an error marked "pinging" for every
\* other ping failure; both keep the ping's error at the end of the chain.
C17_TestConnectionOutcomes ==
    last.op = "TestConnection" =>
        /\ last.ping = NoError => last.ret = NoError
        /\ Is(last.ping, DeadlineExceeded) =>
              last.ret = Errorf("connection timeout", last.ping)
        /\ (last.ping # NoError /\ ~Is(last.ping, DeadlineExceeded)) =>
              last.ret = Errorf("pinging", last.ping)
        /\ last.ret # NoError =>
              (last.ret.prefix[1] = "connection timeout" <=> Is(last.ping, DeadlineExceeded))

\* a ping that failed with the deadline error wrapped by the driver was
\* reported as a connection timeout
C17_Witness ==
    /\ last.op = "TestConnection"
    /\ conns[DB] = "open"
    /\ last.ping = Errorf("dial", Raw(DeadlineExceeded))
    /\ last.ret.prefix = <<"connection timeout", "dial">>

C24_OnePrimaryConnection ==
    /\ [](last.op = "Cleanup" /\ DB # 0 => conns[DB] = "closed")
    /\ [][(last'.op = "Setup" /\ DB # 0 /\ conns[DB] = "open" /\ conns' # conns)
             => conns'[DB] = "closed"]_vars

----------------------------------------------------------------------------
(* Claims about schema reconciliation and discovery (SpecSchema) *)

\* the call just made repeats the one before it, which had succeeded, and
\* the backend answered it
RepeatsSuccessfulCall ==
    /\ call.op \in {"CreateSchema", "CreateTable", "AddColumns"}
    /\ call.err = Nil
    /\ call'.op = call.op
    /\ call'.table = call.table
    /\ call'.columns = call.columns
    /\ call'.backend # OtherError

BackendUnchanged == namespaceExists' = namespaceExists /\ catalog' = catalog

\* C8 as stated: a second CreateSchema, CreateTable or AddColumns with the
\* arguments of a first, successful one returns no error and leaves the
\* namespace and every table's column set as they were, however many
\* columns AddColumns was given.
C8_AsStated ==
    [][RepeatsSuccessfulCall => (call'.err = Nil /\ BackendUnchanged)]_vars

\* C8: a second CreateSchema, CreateTable or AddColumns with the arguments
\* of a first, successful one leaves the namespace and every table's column
\* set as they were; it returns no error for CreateSchema, CreateTable and
\* AddColumns of one column, and the backend's already-exists error for
\* AddColumns of two or more columns.
C8_RepeatLeavesBackendUnchanged ==
    [][RepeatsSuccessfulCall =>
        /\ BackendUnchanged
        /\ call'.err = IF call.op = "AddColumns" /\ Len(call.columns) > 1
                       THEN SnowflakeError(AlreadyExistsState)
                       ELSE Nil]_vars

\* every column of the last call is in the table with the declared type
ColumnsPresent ==
    /\ call.table \in DOMAIN catalog
    /\ \A i \in DOMAIN call.columns :
          /\ call.columns[i].Name \in DOMAIN catalog[call.table]
          /\ catalog[call.table][call.columns[i].Name] =
                CatalogColumn(dataTypesMap(call.columns[i].Type))

\* an AddColumns of two columns that are in the table already was answered
\* with already-exists and returned it
C8_Witness ==
    /\ call.op = "AddColumns"
    /\ Len(call.columns) = 2
    /\ ColumnsPresent
    /\ call.backend = SnowflakeError(AlreadyExistsState)
    /\ call.err = call.backend

\* C9: AddColumns issues exactly one ALTER statement per call; with one
\* column and a backend answer of already-exists it returns nil; with two
\* or more columns it returns the backend's error, whatever it is; with one
\* column and any other backend error it returns that error.
C9_AddColumnsErrorHandling ==
    call.op = "AddColumns" =>
        /\ issued = <<"ALTER TABLE ADD COLUMN">>
        /\ (Len(call.columns) = 1 /\ call.backend = SnowflakeError(AlreadyExistsState))
              => call.err = Nil
        /\ Len(call.columns) >= 2 => call.err = call.backend
        /\ (Len(call.columns) = 1 /\ call.backend # SnowflakeError(AlreadyExistsState))
              => call.err = call.backend

\* AddColumns of two columns, one of them in the table already and one not,
\* returned the backend's already-exists error
C9_Witness ==
    /\ call.op = "AddColumns"
    /\ Len(call.columns) = 2
    /\ call.table \in DOMAIN catalog
    /\ call.columns[1].Name \in DOMAIN catalog[call.table]
    /\ call.columns[2].Name \notin DOMAIN catalog[call.table]
    /\ call.backend = SnowflakeError(AlreadyExistsState)
    /\ call.err = SnowflakeError(AlreadyExistsState)

\* the catalog without column c of table t
WithoutColumn(cat, t, c) ==
    [cat EXCEPT ![t] = [x \in DOMAIN cat[t] \ {c} |-> cat[t][x]]]

\* C10 as stated: after a FetchSchema that read the catalog, every column
\* whose raw type has no mapping is in the unrecognized schema with the
\* missing-type sentinel, is not in the main schema, and the main schema is
\* the one FetchSchema returns for the catalog without that column.
C10_AsStated ==
    (call.op = "FetchSchema" /\ call.answer = "ok") =>
        \A t \in DOMAIN catalog : \A c \in DOMAIN catalog[t] :
            ~calculateDataType(catalog[t][c].data_type, catalog[t][c].numeric_scale).ok =>
                /\ t \in DOMAIN fetched.unrecognized
                /\ c \in DOMAIN fetched.unrecognized[t]
                /\ fetched.unrecognized[t][c] = MissingDatatype
                /\ t \in DOMAIN fetched.schema => c \notin DOMAIN fetched.schema[t]
                /\ fetched.schema = FetchSchemaRun(WithoutColumn(catalog, t, c), "ok").schema

\* column c of table t is in schema m
HasColumn(m, t, c) == t \in DOMAIN m /\ c \in DOMAIN m[t]

\* the query, a row scan or the row iteration of the last FetchSchema failed
\* (a scan can only fail when there is a row to scan)
FetchFailed ==
    \/ call.answer \in {"sql.ErrNoRows", "query error", "rows.Err"}
    \/ call.answer = "scan error" /\ CatalogRows(catalog) # {}

\* both schemas come back nil, with a non-nil error
NothingFetched ==
    /\ fetched.nilSchemas
    /\ fetched.schema = <<>> /\ fetched.unrecognized = <<>>
    /\ fetched.err # "nil"

\* every (table, column) of the catalog is in exactly one of the two schemas,
\* the main one with its mapped type if its raw type maps, the unrecognized
\* one with the missing-type sentinel otherwise, and the schemas hold no
\* other column
EveryColumnPlacedOnce ==
    /\ fetched.err = "nil" /\ ~fetched.nilSchemas
    /\ \A t \in DOMAIN catalog : \A c \in DOMAIN catalog[t] :
          LET d == calculateDataType(catalog[t][c].data_type, catalog[t][c].numeric_scale)
          IN  IF d.ok
              THEN /\ HasColumn(fetched.schema, t, c)
                   /\ fetched.schema[t][c] = d.datatype
                   /\ ~HasColumn(fetched.unrecognized, t, c)
              ELSE /\ HasColumn(fetched.unrecognized, t, c)
                   /\ fetched.unrecognized[t][c] = MissingDatatype
                   /\ ~HasColumn(fetched.schema, t, c)
    /\ \A m \in {fetched.schema, fetched.unrecognized} :
          \A t \in DOMAIN m : \A c \in DOMAIN m[t] :
              t \in DOMAIN catalog /\ c \in DOMAIN catalog[t]

\* C27: a FetchSchema whose query, scans and iteration succeed places every
\* (table, column) of the catalog in exactly one of the two schemas; one
\* whose query fails with another error than sql.ErrNoRows, or whose scan or
\* iteration fails, returns a non-nil error and two nil schemas; one whose
\* query answers sql.ErrNoRows returns two empty schemas and a nil error.
C27_PlacedOnceAndAllOrNothing ==
    call.op = "FetchSchema" =>
        /\ ~FetchFailed => EveryColumnPlacedOnce
        /\ (FetchFailed /\ call.answer # "sql.ErrNoRows") => NothingFetched
        /\ call.answer = "sql.ErrNoRows" =>
              fetched = Fetched(<<>>, <<>>, FALSE, "nil")

C27_Witness ==
    /\ call.op = "FetchSchema"
    /\ call.answer = "ok"
    /\ ForeignTable \in DOMAIN catalog
    /\ DOMAIN catalog[ForeignTable] = {"A", "B"}
    /\ HasColumn(fetched.schema, ForeignTable, "B")
    /\ HasColumn(fetched.unrecognized, ForeignTable, "A")
    /\ ~HasColumn(fetched.schema, ForeignTable, "A")

\* C27 as stated: every failure of the query, of a scan or of the iteration
\* gives a non-nil error and two nil schemas
C27_AsStated ==
    call.op = "FetchSchema" =>
        /\ ~FetchFailed => EveryColumnPlacedOnce
        /\ FetchFailed => NothingFetched

----------------------------------------------------------------------------
(* Claims about the identity mappings merge (SpecMappings) *)

\* the rows of table tbl for the pair of row s, with their copies
RowsOfPair(tbl, s) == {r \in BagToSet(tbl) : SameOn(MappingKey, r, s)}

RECURSIVE Copies(_, _)
Copies(tbl, rows) ==
    IF rows = {} THEN 0
    ELSE LET r == CHOOSE x \in rows : TRUE
         IN  CopiesIn(r, tbl) + Copies(tbl, rows \ {r})

\* staged row j has the highest "ID" among the staged rows of its pair
HighestID(j) ==
    \A k \in Partition(mappingsStaging, MappingKey, mappingsStaging[j]) :
        mappingsStaging[k]["ID"] <= mappingsStaging[j]["ID"]

\* C11: after a LoadIdentityMappingsTable that returned nil, for every pair
\* (MERGE_PROPERTY_TYPE, MERGE_PROPERTY_VALUE) of the staged batch the table
\* holds exactly one row, carrying the RUDDER_ID and UPDATED_AT of the
\* staged row of that pair with the highest ID; a pair the table held is
\* updated in place, a new pair is inserted, and rows of other pairs stay.
C11_HighestIDWinsPerPair ==
    mappingsRet = "nil" =>
        /\ \A i \in DOMAIN mappingsStaging :
              LET s == mappingsStaging[i]
              IN  /\ Copies(mappings, RowsOfPair(mappings, s)) = 1
                  /\ \E j \in Partition(mappingsStaging, MappingKey, s) :
                        /\ HighestID(j)
                        /\ \A r \in RowsOfPair(mappings, s) :
                              /\ r["RUDDER_ID"] = mappingsStaging[j]["RUDDER_ID"]
                              /\ r["UPDATED_AT"] = mappingsStaging[j]["UPDATED_AT"]
                              /\ DOMAIN r = MappingColumns
        /\ \A r \in BagToSet(mappingsBefore) :
              (\A i \in DOMAIN mappingsStaging : ~SameOn(MappingKey, r, mappingsStaging[i]))
                  => CopiesIn(r, mappings) = CopiesIn(r, mappingsBefore)
        /\ \A r \in BagToSet(mappings) :
              \/ r \in BagToSet(mappingsBefore)
              \/ \E i \in DOMAIN mappingsStaging : SameOn(MappingKey, r, mappingsStaging[i])

\* two staged rows of one pair the table already held with other values:
\* the table's row now carries the values of the second, higher-ID row
C11_Witness ==
    /\ mappingsRet = "nil"
    /\ Len(mappingsStaging) = 2
    /\ SameOn(MappingKey, mappingsStaging[1], mappingsStaging[2])
    /\ mappingsStaging[1]["ID"] = 1
    /\ mappingsStaging[2]["ID"] = 2
    /\ mappingsStaging[1]["RUDDER_ID"] # mappingsStaging[2]["RUDDER_ID"]
    /\ \E r \in BagToSet(mappingsBefore) :
          /\ SameOn(MappingKey, r, mappingsStaging[2])
          /\ r["RUDDER_ID"] # mappingsStaging[2]["RUDDER_ID"]
          /\ r["UPDATED_AT"] # mappingsStaging[2]["UPDATED_AT"]
    /\ \E r \in BagToSet(mappings) : SameOn(MappingColumns, r, mappingsStaging[2])

----------------------------------------------------------------------------
(* Claims about error classification (SpecClassify) *)

Matching(i) == MatchString(errorsMappings[i].Format, rawMessage)

\* C12 as stated: for each declared (kind, pattern), every message matching
\* that pattern classifies to that kind, and a message matching no declared
\* pattern classifies as Unclassified.
C12_AsStated ==
    errorKind # "none" =>
        /\ \A i \in DOMAIN errorsMappings : Matching(i) => errorKind = errorsMappings[i].Type
        /\ (\A i \in DOMAIN errorsMappings : ~Matching(i)) => errorKind = "Unclassified"

\* C12: a message classifies to the kind of the first declared pattern it
\* matches: for each declared (kind, pattern), every message that matches
\* the pattern and no pattern declared before it classifies to that kind;
\* a message matching no declared pattern classifies as Unclassified.
C12_FirstMatchWins ==
    errorKind # "none" =>
        /\ \A i \in DOMAIN errorsMappings :
              (Matching(i) /\ \A j \in 1..(i - 1) : ~Matching(j))
                  => errorKind = errorsMappings[i].Type
        /\ (\A i \in DOMAIN errorsMappings : ~Matching(i)) => errorKind = "Unclassified"

\* a message matching a PermissionError pattern and, after it in the
\* declaration order, the ResourceNotFoundError pattern was classified
C12_Witness ==
    /\ errorKind = "PermissionError"
    /\ \E i, j \in DOMAIN errorsMappings :
          /\ i < j
          /\ Matching(i)
          /\ Matching(j)
          /\ errorsMappings[j].Type = "ResourceNotFoundError"

----------------------------------------------------------------------------
(* Claims about one loadTable call (SpecLoad) *)

\* the steps of a load, in the order loadTable issues them
StepOrder ==
    <<"connect", "create temporary table", "getting sample load file location",
      "copy into table", "merge into table">>

IsPrefixOf(a, b) == Len(a) <= Len(b) /\ a = SubSeq(b, 1, Len(a))

\* the step an error prefix of loadTable belongs to: reading the counts of
\* the merge statement is part of the merge step
StepOf(prefix) ==
    IF prefix = "getting rows affected for dedup" THEN "merge into table" ELSE prefix

\* C15: within one loadTable call the steps connect, create staging table,
\* resolve load-file location, bulk copy and merge are each issued at most
\* once and in that order; once a step has failed no later step is issued,
\* the call returns, and the error it returns is the failed step's.
C15_StepsOnceInOrder ==
    [][/\ IsPrefixOf(steps', StepOrder)
       /\ (steps' # <<>> /\ steps' # steps) =>
             /\ steps' = Append(steps, StepOrder[Len(steps) + 1])
             /\ loadRet = NoError
             /\ loadPc # "returned"
       /\ loadRet' # NoError =>
             /\ loadPc' = "returned"
             /\ Len(loadRet'.prefix) = 1
             /\ StepOf(loadRet'.prefix[1]) = steps'[Len(steps')]
             /\ loadRet'.cause \in Causes]_vars

\* a call whose bulk copy failed returned after four steps with the copy's error
C15_Witness ==
    /\ loadPc = "returned"
    /\ steps = SubSeq(StepOrder, 1, 4)
    /\ loadRet = Errorf("copy into table", Raw(OtherError))

\* C16: when loadTable returns successfully its connection is still open
\* exactly when the caller passed skipClosingDBSession = true; after the
\* public LoadTable returns, with or without an error, the connection is
\* not open and the staging table is gone.
C16_OpenIffSkipClosing ==
    loadPc = "returned" =>
        /\ loadRet = NoError => (dbConn = "open" <=> loadArgs.skipClosingDBSession)
        /\ loadArgs.caller = "LoadTable" => (dbConn # "open" /\ ~stagingTable)

\* a public LoadTable went through all five steps and returned nil with its
\* connection closed and the staging table gone
C16_Witness ==
    /\ loadPc = "returned"
    /\ loadRet = NoError
    /\ loadArgs.caller = "LoadTable"
    /\ ~loadArgs.skipClosingDBSession
    /\ Len(steps) = 5
    /\ dbConn = "closed"
    /\ ~stagingTable

----------------------------------------------------------------------------
(* Claims about the pending-job accounting (SpecStats) *)

\* the pending uploads of type t whose identifier is not in the skip-list
PendingNotSkipped(t, skip) ==
    {i \in DOMAIN uploads :
        /\ uploads[i].destination_type = t
        /\ uploads[i].status \in PendingStatuses
        /\ (uploads[i].destination_id \o "_" \o uploads[i].namespace) \notin skip}

----------------------------------------------------------------------------
(* Claims about the suppression of already-exists errors (SpecSuppress) *)

AlreadyExists == SnowflakeError(AlreadyExistsState)

\* the two places: AddColumns of one column, and the autoincrement ALTER of
\* LoadIdentityMappingsTable
SuppressingPlace ==
    \/ answered.op = "AddColumns" /\ Len(answered.columns) = 1
    \/ answered.op = "LoadIdentityMappingsTable"
          /\ answered.statement = "ALTER TABLE ADD COLUMN"

\* C19: an already-exists error of the backend is dropped (the operation
\* returns nil) exactly for AddColumns of a single column and for the
\* autoincrement ALTER of LoadIdentityMappingsTable, which goes on to issue
\* the copy and the merge; for every other statement (staging-table
\* creation, multi-column add, copy, merge, drop, table creation) the
\* operation returns an error that has the backend's error at its end.
C19_AlreadyExistsSuppressedInTwoPlaces ==
    answered.backend = AlreadyExists =>
        /\ returned.cause = Nil <=> SuppressingPlace
        /\ ~SuppressingPlace => returned.cause = AlreadyExists
        /\ answered.op = "LoadIdentityMappingsTable" /\ SuppressingPlace =>
              returned.issued = <<"CREATE TEMPORARY TABLE", "ALTER TABLE ADD COLUMN",
                                  "COPY INTO", "MERGE INTO">>

\* LoadIdentityMappingsTable went on to copy and merge after an
\* already-exists answer to its ALTER
C19_Witness ==
    /\ answered.op = "LoadIdentityMappingsTable"
    /\ answered.statement = "ALTER TABLE ADD COLUMN"
    /\ answered.backend = AlreadyExists
    /\ returned.cause = Nil
    /\ Len(returned.issued) = 4

----------------------------------------------------------------------------
(* Claims about the columns of the staging tables (SpecStaging) *)

\* C20 as stated: at every point of every load operation the column set of
\* each staging table created is a subset of or equal to the column set of
\* its target (loadTable, loadUserTables and LoadIdentityMappingsTable).
C20_AsStated ==
    \A stg \in DOMAIN temp : temp[stg] \subseteq tables[TargetOf(stg)]

\* C20: at every point the column set of each staging table of loadTable and
\* of loadUserTables is a subset of or equal to its target's; the staging
\* table of LoadIdentityMappingsTable has exactly the target's columns until
\* its ALTER statement and, after it, the target's columns and the
\* autoincrement column "ID".
C20_SubsetButForSurrogateID ==
    \A stg \in DOMAIN temp :
        IF stg = StagingTableName(identityMappingsTable)
        THEN temp[stg] \in {tables[TargetOf(stg)], tables[TargetOf(stg)] \cup {"ID"}}
        ELSE temp[stg] \subseteq tables[TargetOf(stg)]

\* the staging tables of users, with fewer columns than the target, and of
\* the mappings, with the "ID" the target does not have, both exist
C20_Witness ==
    /\ StagingTableName(usersTable) \in DOMAIN temp
    /\ temp[StagingTableName(usersTable)] # tables[usersTable]
    /\ StagingTableName(identityMappingsTable) \in DOMAIN temp
    /\ "ID" \in temp[StagingTableName(identityMappingsTable)]
    /\ "ID" \notin tables[identityMappingsTable]

----------------------------------------------------------------------------
(* Claims about the users merge and the result of loadUserTables (SpecUsers) *)

UsersLoaded ==
    /\ usersPc = "returned"
    /\ DOMAIN usersResult = {identifiesTable, usersTable}
    /\ usersResult[usersTable] = NoError

\* the user IDs of the batch
BatchUsers == {identifiesStaged[i].USER_ID : i \in DOMAIN identifiesStaged} \ {NULL}

\* the (RECEIVED_AT, value) pairs known for column c of user id: the users
\* row the call found, and the batch's rows for that user
Known(id, c) ==
    {<<u.RECEIVED_AT, u[c]>> : u \in {x \in usersBefore : x.ID = id}}
    \cup {<<identifiesStaged[i].RECEIVED_AT, IdentifyValue(identifiesStaged[i], c)>> :
             i \in {j \in DOMAIN identifiesStaged : identifiesStaged[j].USER_ID = id}}

\* v is a most recent non-null value of the pairs, or NULL when all are null
MostRecentNonNull(pairs, v) ==
    LET nn == {p \in pairs : p[2] # NULL}
    IN  IF nn = {} THEN v = NULL
        ELSE \E p \in nn : p[2] = v /\ \A q \in nn : q[1] <= p[1]

\* C21: after a successful loadUserTables, for every user ID that is a
\* non-null USER_ID of the identifies batch the users table holds exactly
\* one row, and each attribute column of that row holds, independently of
\* the other columns, the most recent (by RECEIVED_AT) non-null value among
\* the users row the call found and the batch's identifies rows of that user.
C21_LatestKnownValuePerAttribute ==
    UsersLoaded =>
        \A id \in BatchUsers :
            /\ Cardinality({u \in usersRows : u.ID = id}) = 1
            /\ \A u \in {x \in usersRows : x.ID = id} :
                  \A c \in UserColNames : MostRecentNonNull(Known(id, c), u[c])

\* the latest identifies row of the user has no NAME, an earlier one has:
\* the users row got the earlier NAME, the later RECEIVED_AT, and kept its EMAIL
C21_Witness ==
    /\ UsersLoaded
    /\ Len(identifiesStaged) = 2
    /\ identifiesStaged[1] = [USER_ID |-> 1, RECEIVED_AT |-> 3, NAME |-> NULL]
    /\ identifiesStaged[2] = [USER_ID |-> 1, RECEIVED_AT |-> 1, NAME |-> 2]
    /\ [ID |-> 1, RECEIVED_AT |-> 2, NAME |-> NULL, EMAIL |-> 1] \in usersBefore
    /\ [ID |-> 1, RECEIVED_AT |-> 3, NAME |-> 2, EMAIL |-> 1] \in usersRows

\* C22: loadUserTables runs the identifies load first and touches the users
\* table only after it succeeded. If the identifies load fails the result
\* holds only the error of identifies, and no users statement is issued; if
\* the upload has no users schema the result holds only nil for identifies,
\* and no users statement is issued; if a users step fails the result holds
\* nil for identifies and the error of that step for users.
C22_IdentifiesFirstThenUsers ==
    usersPc = "returned" =>
        /\ identifiesTable \in DOMAIN usersResult
        /\ DOMAIN usersResult \subseteq {identifiesTable, usersTable}
        /\ usersResult[identifiesTable] # NoError =>
              /\ DOMAIN usersResult = {identifiesTable}
              /\ usersResult[identifiesTable].prefix[1] = "loading table " \o identifiesTable
              /\ usersResult[identifiesTable].cause \in Causes
        /\ DOMAIN usersResult = {identifiesTable} =>
              /\ usersStmts = <<>>
              /\ usersRows = usersBefore
        /\ usersTable \in DOMAIN usersResult =>
              /\ usersResult[identifiesTable] = NoError
              /\ usersStmts # <<>>
              /\ usersResult[usersTable] # NoError =>
                    /\ usersResult[usersTable].prefix \in
                          {<<f>> : f \in UsersFailures \ {"none"}}
                    /\ usersResult[usersTable].cause \in Causes
                    /\ usersResult[usersTable].prefix = <<"creating staging table for users">>
                          => (Len(usersStmts) = 1 /\ usersRows = usersBefore)
                    /\ usersResult[usersTable].prefix = <<"running deduplication">>
                          => usersRows = usersBefore

\* the users merge failed: nil for identifies, the merge's error for users,
\* after the two users statements
C22_Witness ==
    /\ usersPc = "returned"
    /\ usersResult = (identifiesTable :> NoError)
                     @@ (usersTable :> Errorf("running deduplication", Raw(OtherError)))
    /\ [i \in DOMAIN usersStmts |-> usersStmts[i].sql] =
          <<"CREATE TEMPORARY TABLE AS", "MERGE INTO">>

\* C26: the users merge overwrites all columns of a matching users row with
\* the values of its staging row whatever ShouldOnDedupUseNewRecord says:
\* under both values of the policy, after a users merge every user of the
\* staging table has exactly its staging row in the users table.
C26_UsersMergeIgnoresPolicy ==
    (usersPc = "returned" /\ usersTable \in DOMAIN usersResult
        /\ (usersResult[usersTable] = NoError
              \/ usersResult[usersTable].prefix = <<"getting rows affected for dedup">>)) =>
        /\ \A st \in usersStaged : {u \in usersRows : u.ID = st.ID} = {st}
        /\ \A u \in usersRows : (\A st \in usersStaged : st.ID # u.ID) => u \in usersBefore

\* with prefer-latest disabled, a users row that the call found was
\* overwritten in NAME and RECEIVED_AT by its staging row
C26_Witness ==
    /\ UsersLoaded
    /\ ~usersPolicy
    /\ \E u \in usersBefore : \E st \in usersStaged :
          /\ u.ID = st.ID
          /\ u.NAME # NULL
          /\ st.NAME # u.NAME
          /\ st.RECEIVED_AT # u.RECEIVED_AT
          /\ st \in usersRows
          /\ u \notin usersRows

----------------------------------------------------------------------------
(* Claims about IsEmpty (SpecEmpty) *)

\* the call of IsEmpty has returned
EmptyReturned == emptyCall # <<>> /\ emptyRet # <<>>

\* some event table of the namespace exists and holds rows
SomeTableHoldsRows == \E i \in DOMAIN EventTables : emptyCall.ns[i] = "rows"

\* the first table whose existence check or count fails, or that holds rows,
\* holds rows: the loop reaches a table with rows before any failure
RowsFoundBeforeAnyFailure ==
    \E i \in DOMAIN EventTables :
        /\ emptyCall.ns[i] = "rows"
        /\ \A j \in 1..(i - 1) : emptyCall.ns[j] \in {"missing", "empty"}

\* the loop reaches a table whose existence check or count fails before any
\* table with rows
FailureBeforeAnyRows ==
    \E i \in DOMAIN EventTables :
        /\ emptyCall.ns[i] \in {"exists error", "count error"}
        /\ \A j \in 1..(i - 1) : emptyCall.ns[j] \in {"missing", "empty"}

\* C25: IsEmpty returns (false, nil) exactly when its connect succeeds and
\* the loop reaches a table that exists and holds rows before any existence
\* check or count fails (a missing table is skipped); it never returns
\* (true, nil) while a table holds rows, and a failed connect and every failed
\* existence check or count it runs yield a non-nil error.
C25_NotEmptyIffRowsReached ==
    EmptyReturned =>
        /\ (emptyRet = [empty |-> FALSE, err |-> "nil"])
              <=> (emptyCall.ok /\ RowsFoundBeforeAnyFailure)
        /\ (emptyRet = [empty |-> TRUE, err |-> "nil"]) => ~SomeTableHoldsRows
        /\ ~emptyCall.ok => emptyRet = [empty |-> TRUE, err |-> "connect"]
        /\ (emptyCall.ok /\ FailureBeforeAnyRows) => emptyRet.err # "nil"

C25_Witness ==
    /\ EmptyReturned
    /\ emptyCall.ok
    /\ emptyCall.ns = <<"missing", "empty", "rows", "exists error", "rows">>
    /\ emptyRet = [empty |-> FALSE, err |-> "nil"]

\* C25 as stated: (false, nil) exactly when some table holds rows
C25_AsStated ==
    EmptyReturned =>
        ((emptyRet = [empty |-> FALSE, err |-> "nil"]) <=> SomeTableHoldsRows)

----------------------------------------------------------------------------
(* Claims about building the MERGE statement (SpecBuild) *)

\* C28: loadTable never aborts the process while it builds the MERGE
\* statement, for every upload schema (the empty one included) under both
\* policies.
C28_LoadTableNeverAborts == buildPc # "aborted"

----------------------------------------------------------------------------
(* Claims about DownloadIdentityRules (SpecRules) *)

\* max(1, ceil(totalRows / batchSize))
ExpectedPages(totalRows) ==
    IF totalRows = 0 THEN 1 ELSE (totalRows + batchSize - 1) \div batchSize

\* the page queries issued for table i, in the order they were issued
PagesOf(i) == SelectSeq(pageQueries, LAMBDA q : q.table = i)

\* the download returned an error
RulesFailed == rulesErr \notin {"none", "nil"}

\* getFromTable returned nil for table i
TableDone(i) == i < rulesTable

\* C29: the download ends; the page queries of a table are at offsets 0,
\* 10000, 20000, ..., never more than max(1, ceil(totalRows / 10000)) and
\* exactly that many once its loop has ended without an error; the tables are
\* visited in their fixed order, a missing table gets no page query, and
\* after the first error no further query is issued.
C29_PagingTerminates ==
    /\ <>(rulesErr # "none")
    /\ [](rulesTable > 0 =>
            /\ \A j \in DOMAIN pageQueries : \A k \in DOMAIN pageQueries :
                  j < k => pageQueries[j].table <= pageQueries[k].table
            /\ \A q \in DOMAIN pageQueries : pageQueries[q].table <= rulesTable
            /\ \A i \in DOMAIN IdentityTables :
                  LET t == warehouseTables[i]
                      pages == PagesOf(i)
                  IN  /\ \A k \in DOMAIN pages : pages[k].offset = (k - 1) * batchSize
                      /\ BeforePaging(t) # "page" => pages = <<>>
                      /\ BeforePaging(t) = "page" =>
                            /\ Len(pages) <= ExpectedPages(t.totalRows)
                            /\ TableDone(i) => Len(pages) = ExpectedPages(t.totalRows)
            /\ RulesFailed => rulesTable \in DOMAIN IdentityTables
            /\ rulesErr = "nil" =>
                  /\ rulesTable = Len(IdentityTables) + 1
                  /\ \A i \in DOMAIN IdentityTables :
                        BeforePaging(warehouseTables[i]) \in {"skip", "page"})
    /\ [][RulesFailed => UNCHANGED pageQueries]_vars

C29_Witness ==
    /\ rulesErr = "nil"
    /\ warehouseTables[1] = MissingTable
    /\ warehouseTables[2] = RulesTable("present", 25000, TRUE, TRUE)
    /\ warehouseTables[4] = RulesTable("present", 0, TRUE, TRUE)
    /\ pageQueries = << [table |-> 2, offset |-> 0], [table |-> 2, offset |-> 10000],
                        [table |-> 2, offset |-> 20000], [table |-> 4, offset |-> 0] >>

----------------------------------------------------------------------------
(* Claims about DeleteBy (SpecDelete) *)

\* C30: with delete-by-jobs disabled DeleteBy executes no statement and
\* returns nil; with it enabled the DELETEs executed are those of the tables
\* of the list, in list order, one each, up to the first that fails: DeleteBy
\* returns that error and no DELETE follows it, and it returns nil only after
\* a DELETE for every table succeeded.
C30_DeleteByHonoursSetting ==
    /\ [](deletePos > 0 =>
            /\ ~enableDeleteByJobs => (deleted = <<>> /\ deleteRet \in {"none", "nil"})
            /\ Len(deleted) <= Len(deleteTables)
            /\ \A k \in DOMAIN deleted :
                  /\ deleted[k].table = deleteTables[k]
                  /\ k < Len(deleted) => deleted[k].answer = "nil"
            /\ (enableDeleteByJobs /\ deleteRet = "nil") =>
                  /\ Len(deleted) = Len(deleteTables)
                  /\ \A k \in DOMAIN deleted : deleted[k].answer = "nil"
            /\ deleteRet \notin {"none", "nil"} =>
                  /\ deleted # <<>>
                  /\ deleteRet = deleted[Len(deleted)].answer
            /\ (deleted # <<>> /\ deleted[Len(deleted)].answer # "nil") =>
                  deleteRet = deleted[Len(deleted)].answer)
    /\ [][deleteRet # "none" => UNCHANGED deleted]_vars

C30_Witness ==
    /\ enableDeleteByJobs
    /\ deleteTables = <<"TRACKS", "PAGES", "USERS">>
    /\ deleted = <<[table |-> "TRACKS", answer |-> "nil"],
                   [table |-> "PAGES", answer |-> "exec error"]>>
    /\ deleteRet = "exec error"

====
